---- MODULE Spec2Model ----
(***************************************************************************)
(* A model of the browser playback surface of yumi-player (PlayerView):   *)
(* the loudness normaliser (calculateDBFS / calculateVolumeLevel /        *)
(* updateVolume), and the playback recovery logic around the push channel *)
(* handler, handlePlayError and the retry timer.                          *)
(*                                                                         *)
(* Decibel figures are whole numbers (the target slider has step 1 and    *)
(* the local measurement is rounded to a whole number).  A linear gain is *)
(* a fixed-point number: GainScale stands for 1.0.                        *)
(***************************************************************************)
EXTENDS Integers, Sequences, FiniteSets, TLC

\* ------------------------------------------------------------------ bounds
MaxLoudAbove == 3      \* loudness figures go up to +MaxLoudAbove dB
MaxLoudBelow == 70     \* ... and down to -MaxLoudBelow dB
MaxInflight == 2       \* fetch-and-decode runs in flight at a time
MaxStarts == 2         \* fetch-and-decode runs started per url
MaxPending == 2        \* play() promises pending at a time
MaxErrs == 5           \* errors handled between two url changes
MaxTimerId == 3        \* timer ids in use at a time
MaxQueue == 3          \* status messages in the banner queue at a time
MaxFades == 2          \* replace transitions of the banner in progress at a time
MaxNow == 3000         \* Date.now() goes up to MaxNow ms after the mount
MaxTime == 4           \* the position of the element goes up to MaxTime seconds

\* -------------------------------------------------------- program constants
TargetMin == -60       \* slider :min of config.target_db
TargetMax == 0         \* slider :max of config.target_db
DefaultTargetDb == -40 \* targetDbFS when the snapshot has no config
FallbackDbFS == -10    \* fallbackDbFS of calculateDBFS
InitialRetryCount == 3 \* ref(3) and the reset in watch(musicUrl)
DefaultTimeout == 3000 \* message.timeout || 3000
SearchingTimeout == 3000   \* pushInfo(..., false, 3000)
LoadingTimeout == 5000     \* pushInfo(..., replaceLatest, 5000)
ResultTimeout == 6000      \* pushSuccess / pushError(..., replaceLatest, 6000)
SuppressMs == 1000         \* suppressStatusUntil = Date.now() + 1000

GainScale == 1000 * 1000  \* the fixed-point representation of the gain 1.0

\* Option values: <<>> is null / undefined, <<x>> is the value x.
None == <<>>
Some(x) == <<x>>

\* ------------------------------------------------------------ pure helpers

\* g * 10^(-1/20) = g * 0.891251 in fixed point, rounded down; the product is
\* split so that it stays within 32 bits.
OneDbDown(g) == (g * 891) \div 1000 + (g * 251) \div 1000000

\* 10^(-n/20) for 0 <= n < 20, in fixed point.
RECURSIVE DbDown(_)
DbDown(n) == IF n = 0 THEN GainScale ELSE OneDbDown(DbDown(n - 1))

\* 10^k for a natural k.
RECURSIVE TenTo(_)
TenTo(k) == IF k = 0 THEN 1 ELSE 10 * TenTo(k - 1)

\* Math.pow(10, dbAttenuation / 20) for a whole dbAttenuation <= 0, in fixed
\* point: every full 20 dB is a division by 10, the rest is DbDown.
Pow10Db(dbAttenuation) ==
    LET n == 0 - dbAttenuation IN
    IF n <= 0 THEN GainScale
    ELSE DbDown(n % 20) \div TenTo(n \div 20)

\* A mutant of VolumeLevel: the comparison and the difference the wrong way
\* round, so that the tracks quieter than the target are the ones changed.
VolumeLevel_Flipped(dbFS, target) ==
    IF dbFS < target
      THEN LET dbAttenuation == dbFS - target IN Pow10Db(dbAttenuation)
      ELSE GainScale

\* calculateVolumeLevel once calculateDBFS has returned dbFS.
VolumeLevel(dbFS, target) ==
    IF dbFS > target
      THEN LET dbAttenuation == target - dbFS IN Pow10Db(dbAttenuation)
      ELSE GainScale

\* ---------------------------------------------------------------- variables
VARIABLES
    gLoud,      \* loudness figure handed to calculateVolumeLevel
    gTarget,    \* targetDbFS.value
    gGain,      \* the returned gain, None before the call
    status,     \* the reactive mirror of the snapshot: None is {} (no frame yet)
    audioPaused,          \* audioRef.value.paused
    audioVolume,          \* audioRef.value.volume, fixed point
    audioTime,            \* audioRef.value.currentTime, whole seconds
    playPending,          \* play() promises not yet settled
    autoplayNeedGuesture, \* the ref behind the browser-play-button
    retryCount,           \* retryCount.value
    retryTimeout,         \* the timer id kept in retryTimeout, None is null
    timers,               \* ids of the pending window timers of handlePlayError
    dbFSCache,            \* the Map url -> loudness figure
    inflight,             \* fetch-and-decode runs of calculateDBFS not yet settled
    started,              \* url -> number of fetch-and-decode runs started so far
    failed,               \* urls for which a fetch-and-decode run has failed
    out,                  \* what the last handler did: its name, input and outputs
    errs,                 \* errors that took the retry path since the last url change
    skips,                \* 'next' intents sent by handlePlayError since the last url change
    clean,                \* since the last url change (no retry timer pending then) every
                          \* such error was a real one and found the retry of the one
                          \* before it already fired
    countAtChange,        \* retryCount.value when the url last changed
    messages,             \* messages.value, the queue of the banner
    removerTimeout,       \* the timer id kept in removerTimeout, None is null
    removers,             \* the pending window timers that call shiftMessage
    fades,                \* the messages of the pushStatusMessage calls suspended
                          \* in their 50 ms wait, oldest first
    playerStatus,         \* playerStatus.value of usePlayerStatus, None is null
    combinedList,         \* the combinedList of the playlist control
    suppressStatusUntil,  \* suppressStatusUntil of the playlist control, in ms
    now,                  \* Date.now(), in ms since the mount
    arrived,              \* the frame the channel delivered last, None before the first
                          \* (of a frame to the player only its snapshot is kept: out
                          \* has its command)
    reordered,            \* the last reordering made in the playlist control: how
                          \* ("move", "sort"; "removed" once a removal followed it),
                          \* when, and the list before it
    mounted,              \* the player view is mounted: audioRef and the channel exist
    reported,             \* the position the last 'progress' report carried, None
                          \* before the first
    textIn,               \* the call of a text utility under study: the function
                          \* and its arguments, None when none is
    textOut,              \* what that call returned, None before it returns
    wsClosed,             \* PlayerWs.closed
    wsSockets,            \* every WebSocket the PlayerWs has created, in order of
                          \* creation: its state and whether its onclose and
                          \* onmessage handlers are set
    wsCurrent,            \* PlayerWs.ws, as an index into wsSockets
    wsTimers,             \* the pending setTimeout(createWs, 3000) callbacks
    wsDelivered,          \* the frames handed to the registered handler so far
    addLoading,           \* addLoading.value of useManualAdd: the keys it holds
                          \* (every key it holds has the value true)
    addRequests,          \* the handleManualAdd calls suspended in their await
    scenario              \* "searching": one searching event came to the idle empty
                          \* queue and nothing since; "loading": the query-loading
                          \* event of the same query followed it; "success": the
                          \* query-success event followed that; "spliced": the last
                          \* event spliced a message out from behind the head;
                          \* else "none"

gainVars == <<gLoud, gTarget, gGain>>
audioVars == <<audioPaused, audioVolume, audioTime, playPending>>
retryVars == <<autoplayNeedGuesture, retryCount, retryTimeout, timers>>
loudVars == <<dbFSCache, inflight, started, failed>>
histVars == <<errs, skips, clean, countAtChange>>
notifyVars == <<messages, removerTimeout, removers, fades, scenario>>
controlState == <<playerStatus, combinedList, suppressStatusUntil, now, reordered>>
controlVars == <<controlState, arrived>>
playerVars == <<status, audioVars, retryVars, loudVars, out, histVars>>
viewVars == <<mounted, reported>>
textVars == <<textIn, textOut>>
socketVars == <<wsClosed, wsSockets, wsCurrent, wsTimers, wsDelivered>>
addVars == <<addLoading, addRequests>>
sideVars == <<textVars, socketVars, addVars>>
vars == <<gainVars, playerVars, notifyVars, controlVars, viewVars, sideVars>>

\* --------------------------------------------------------------- data model
Song(filename, decibel) == [filename |-> filename, decibel |-> decibel]
Entry(id, music) == [id |-> id, music |-> music]
Cmd(cmd, value) == [cmd |-> cmd, value |-> value]

\* getAudioUrl: '' for an empty or null path, else the file endpoint with the
\* path as its parameter.
EmptyUrl == <<>>
getAudioUrl(path) == IF path = "" THEN EmptyUrl ELSE <<"/player/file?path=", path>>

\* musicUrl, targetDbFS and the song list of updateVolume, of a status mirror.
MusicUrlOf(st) ==
    IF st = None \/ st[1].current = None THEN EmptyUrl
    ELSE getAudioUrl(st[1].current[1].music.filename)

TargetDbOf(st) == IF st = None THEN DefaultTargetDb ELSE st[1].target_db

RECURSIVE MusicOf(_)
MusicOf(entries) ==
    IF entries = <<>> THEN <<>> ELSE <<Head(entries).music>> \o MusicOf(Tail(entries))

SongListOf(st) ==
    IF st = None THEN <<>> ELSE MusicOf(st[1].playlist) \o st[1].cached_songs

\* The reactive object behind the mirror: {} before the first frame.
StatusObj == IF status = None THEN <<>> ELSE status[1]

\* A mutant of ObjectAssign: a property the target has already is kept.
ObjectAssign_KeepExisting(target, source) ==
    [k \in DOMAIN target \cup DOMAIN source |->
        IF k \in DOMAIN target THEN target[k] ELSE source[k]]

\* Object.assign(target, source): every own property of the source is written
\* to the target, the other properties of the target stay (none stays when
\* the source has every property of the target: the result is the source).
ObjectAssign(target, source) ==
    IF DOMAIN target \subseteq DOMAIN source THEN source
    ELSE [k \in DOMAIN target \cup DOMAIN source |->
            IF k \in DOMAIN source THEN source[k] ELSE target[k]]

musicUrl == MusicUrlOf(status)
targetDbFS == TargetDbOf(status)
StatusPaused == IF status = None THEN None ELSE Some(status[1].paused)

\* The figure a successful fetch-and-decode of a file measures (RMS of the
\* first channel as 20*log10, rounded): the same file gives the same figure.
MeasuredDb(url) == IF url[2] = "a" THEN -12 ELSE -45

\* ------------------------------------------------------- loudness normaliser
Put(map, key, v) == [k \in DOMAIN map \cup {key} |-> IF k = key THEN v ELSE map[k]]
CountOf(map, key) == IF key \in DOMAIN map THEN map[key] ELSE 0
RemoveAt(seq, i) == SubSeq(seq, 1, i - 1) \o SubSeq(seq, i + 1, Len(seq))

\* A mutant of CacheDecibels: the decibels of the snapshot are not stored.
CacheDecibels_Skipped(cache, songList) == cache

\* updateVolume, the forEach that stores every truthy song.decibel.
RECURSIVE CacheDecibels(_, _)
CacheDecibels(cache, songList) ==
    IF songList = <<>> THEN cache
    ELSE LET song == Head(songList)
             truthy == song.decibel /= None /\ song.decibel[1] /= 0
         IN CacheDecibels(
                IF truthy THEN Put(cache, getAudioUrl(song.filename), song.decibel[1])
                ELSE cache,
                Tail(songList))

\* A mutant of CacheHit: the cache is never consulted.
CacheHit_Never(cache, url) == FALSE

\* calculateDBFS: dbFSCache.has(url).
CacheHit(cache, url) == url \in DOMAIN cache

\* calculateDBFS up to its first await, called with continuation cont ("main":
\* the await in updateVolume, with the song list it captured; "preload": the
\* result is dropped).  A hit or an empty url returns at once; otherwise a
\* fetch-and-decode run starts.
StartDBFS(m, url, cont, songs) ==
    IF CacheHit(m.cache, url) \/ url = EmptyUrl THEN m
    ELSE [m EXCEPT !.inflight = Append(@, [url |-> url, cont |-> cont, songs |-> songs]),
                   !.started = Put(@, url, CountOf(@, url) + 1)]

\* What calculateDBFS returns without suspending.
DBFSNow(cache, url) == IF CacheHit(cache, url) THEN cache[url] ELSE FallbackDbFS

\* updateVolume: the preload of the upcoming songs.
RECURSIVE Preload(_, _)
Preload(m, songList) ==
    IF songList = <<>> THEN m
    ELSE Preload(StartDBFS(m, getAudioUrl(Head(songList).filename), "preload", <<>>),
                 Tail(songList))

\* updateVolume after the volume of the current track is set: the report and
\* the preload.
AfterVolume(m, songList) ==
    Preload([m EXCEPT !.sent = Append(@, Cmd("volume-report", Some(m.volume)))], songList)

\* updateVolume, run until it has finished or is suspended in a fetch-and-decode.
\* m is the machine state it works on: cache, volume, inflight, started, sent.
UpdateVolume(m, st) ==
    LET songList == SongListOf(st)
        url == MusicUrlOf(st)
        target == TargetDbOf(st)
        m1 == [m EXCEPT !.cache = CacheDecibels(@, songList)]
    IN  IF url = EmptyUrl THEN m1
        ELSE LET m2 == [m1 EXCEPT !.volume = VolumeLevel(DBFSNow(m1.cache, EmptyUrl), target)]
             IN  IF CacheHit(m2.cache, url) \/ url = EmptyUrl
                 THEN AfterVolume([m2 EXCEPT !.volume = VolumeLevel(DBFSNow(m2.cache, url), target)],
                                  songList)
                 ELSE StartDBFS(m2, url, "main", songList)

Machine == [cache |-> dbFSCache, volume |-> audioVolume, inflight |-> inflight,
            started |-> started, sent |-> <<>>]

WithinLoudBounds(m) ==
    /\ Len(m.inflight) <= MaxInflight
    /\ \A u \in DOMAIN m.started : m.started[u] <= MaxStarts

InstallMachine(m) ==
    /\ WithinLoudBounds(m)
    /\ dbFSCache' = m.cache
    /\ audioVolume' = m.volume
    /\ inflight' = m.inflight
    /\ started' = m.started

\* What a handler leaves in out.
Out(op, arg, sent, log) == [op |-> op, arg |-> arg, sent |-> sent, log |-> log]

\* A mutant of CacheAfterDecode: the catch branch stores its fallback figure.
CacheAfterDecode_Always(cache, url, ok, dbFS) == Put(cache, url, dbFS)

\* calculateDBFS after its await: dbFSCache.set(url, dbFS) at the end of the
\* try block; the catch block stores nothing.
CacheAfterDecode(cache, url, ok, dbFS) == IF ok THEN Put(cache, url, dbFS) ELSE cache

\* A mutant of SettledDbFS: the catch branch has no fallback figure of its own.
SettledDbFS_NoFallback(url, ok) == MeasuredDb(url)

\* calculateDBFS after its await: what it returns to its caller, the figure it
\* measured, or fallbackDbFS from the catch block.
SettledDbFS(url, ok) == IF ok THEN MeasuredDb(url) ELSE FallbackDbFS

\* A fetch-and-decode run settles: ok, or with a network or codec error.
DecodeDone(i, ok) ==
    /\ i \in 1 .. Len(inflight)
    /\ LET d == inflight[i]
           dbFS == SettledDbFS(d.url, ok)
           m0 == [Machine EXCEPT !.inflight = RemoveAt(@, i),
                                 !.cache = CacheAfterDecode(@, d.url, ok, dbFS)]
           m == IF d.cont = "main"
                THEN AfterVolume([m0 EXCEPT !.volume = VolumeLevel(dbFS, targetDbFS)], d.songs)
                ELSE m0
       IN  /\ InstallMachine(m)
           /\ failed' = IF ok THEN failed ELSE failed \cup {d.url}
           /\ out' = Out("decode", IF ok THEN "ok" ELSE "error", m.sent,
                         IF ok THEN "logger.debug" ELSE "logger.error")
    /\ UNCHANGED <<status, audioPaused, audioTime, playPending, retryVars, histVars>>

\* ------------------------------------------------------- playback recovery

\* audioRef.value.play(): one more pending promise; the element leaves the
\* paused state when the browser starts playback (begins), and stays as it was
\* when the browser refuses.
PlayAudio(pausedNow, begins) ==
    /\ playPending < MaxPending
    /\ playPending' = playPending + 1
    /\ audioPaused' = IF begins THEN FALSE ELSE pausedNow

\* window.setTimeout: the new timer, under the smallest id no pending timer has.
SetTimeout(pending) ==
    LET free == {n \in 1 .. MaxTimerId : n \notin pending} IN
    CHOOSE n \in free : \A k \in free : n <= k

\* A mutant of ClearTimeout: the call cancels nothing.
ClearTimeout_Nothing(pending, id) == pending

\* window.clearTimeout(id).
ClearTimeout(pending, id) == IF id = None THEN pending ELSE pending \ {id[1]}

\* A mutant of ScheduleRetry: the pending retry is not cleared first.
ScheduleRetry_NoClear ==
    /\ Cardinality(timers) < MaxTimerId
    /\ timers' = timers \cup {SetTimeout(timers)}
    /\ retryTimeout' = Some(SetTimeout(timers))

\* handlePlayError, the branch retryCount > 0: clearTimeout of the retry kept
\* in retryTimeout, then a new 3000 ms timer.
ScheduleRetry ==
    LET cleared == ClearTimeout(timers, retryTimeout) IN
    /\ Cardinality(cleared) < MaxTimerId
    /\ timers' = cleared \cup {SetTimeout(cleared)}
    /\ retryTimeout' = Some(SetTimeout(cleared))

\* A mutant of IsAutoplayRefusal: the refusal is not recognised.
IsAutoplayRefusal_Never(kind) == FALSE

\* handlePlayError: error.message.match(/user.*interact/i).
IsAutoplayRefusal(kind) == kind = "autoplay"

\* A mutant of LogCall: every error goes to the remote logger.
LogCall_AlwaysLogger(kind) == "logger.error"

\* The logging call handlePlayError makes for an error: the match against the
\* benign messages (empty src, no supported sources, play() interrupted by a
\* new load request) chooses the call and nothing else.
LogCall(kind) == IF kind = "benign" THEN "console.error" ELSE "logger.error"

\* A mutant of CanRetry: the budget is taken to be used up one retry early.
CanRetry_OneLess(count) == count > 1

\* handlePlayError: retryCount.value > 0.
CanRetry(count) == count > 0

\* A mutant of SkipIntent: the intent is sent once per track only.
SkipIntent_Once ==
    IF status /= None /\ status[1].current /= None /\ skips = 0
    THEN <<Cmd("next", Some(status[1].current[1].id))>>
    ELSE <<>>

\* handlePlayError, the branch without retries left: what is sent.
SkipIntent ==
    IF status /= None /\ status[1].current /= None
    THEN <<Cmd("next", Some(status[1].current[1].id))>>
    ELSE <<>>

\* handlePlayError(error), for an error whose message is an autoplay refusal,
\* a benign one or any other one (real); op names the caller.
HandlePlayError(op, kind) ==
    IF IsAutoplayRefusal(kind)
    THEN /\ autoplayNeedGuesture' = TRUE
         /\ out' = Out(op, kind, <<>>, "logger.error")
         /\ UNCHANGED <<retryCount, retryTimeout, timers, errs, skips, clean>>
    ELSE /\ errs < MaxErrs
         /\ errs' = errs + 1
         /\ IF CanRetry(retryCount)
            THEN /\ ScheduleRetry
                 /\ clean' = (clean /\ kind = "real" /\ timers = {})
                 /\ out' = Out(op, kind, <<>>, LogCall(kind))
                 /\ UNCHANGED skips
            ELSE /\ out' = Out(op, kind, SkipIntent, LogCall(kind))
                 /\ skips' = skips + Len(SkipIntent)
                 /\ clean' = (clean /\ kind = "real")
                 /\ UNCHANGED <<retryTimeout, timers>>
         /\ UNCHANGED <<autoplayNeedGuesture, retryCount>>

\* A play() promise is rejected: playAudio's catch runs handlePlayError.
PlayReject(kind) ==
    /\ playPending > 0
    /\ playPending' = playPending - 1
    /\ HandlePlayError("play-rejected", kind)
    /\ UNCHANGED <<status, audioPaused, audioVolume, audioTime, loudVars, countAtChange>>

\* A play() promise is fulfilled: nothing is registered for that.
PlayResolve ==
    /\ playPending > 0
    /\ playPending' = playPending - 1
    /\ out' = Out("play-resolved", "none", <<>>, "none")
    /\ UNCHANGED <<status, audioPaused, audioVolume, audioTime, retryVars, loudVars, histVars>>

\* handleError: the element's error event, with its MediaError.
HandleError(kind) ==
    /\ HandlePlayError("error-event", kind)
    /\ UNCHANGED <<status, audioVars, loudVars, countAtChange>>

\* A mutant of CountAfterRetry: the callback does not touch the count.
CountAfterRetry_Kept(count) == count

\* The callback of the retry timer: retryCount.value -= 1.
CountAfterRetry(count) == count - 1

\* A mutant of RetryPlays: playback is re-attempted unless the flag is true.
RetryPlays_UnlessPaused(paused, hasAudio) == paused /= Some(TRUE) /\ hasAudio

\* The callback of the retry timer: status.paused === false, and in playAudio
\* the test of audioRef.value.
RetryPlays(paused, hasAudio) == paused = Some(FALSE) /\ hasAudio

\* The callback of the retry timer: the decrement, and playAudio() when the
\* paused flag is false.
RetryTimerFire(id) ==
    /\ id \in timers
    /\ timers' = timers \ {id}
    /\ retryCount' = CountAfterRetry(retryCount)
    /\ IF RetryPlays(StatusPaused, mounted)
       THEN \E begins \in BOOLEAN : PlayAudio(audioPaused, begins)
       ELSE UNCHANGED <<playPending, audioPaused>>
    /\ out' = Out("retry-timer", "none", <<>>, "none")
    /\ UNCHANGED <<status, audioVolume, audioTime, autoplayNeedGuesture, retryTimeout,
                   loudVars, histVars>>

\* The click on browser-play-button, rendered while autoplayNeedGuesture.
ClickPlay ==
    /\ autoplayNeedGuesture
    /\ \E begins \in BOOLEAN : PlayAudio(audioPaused, begins)
    /\ autoplayNeedGuesture' = FALSE
    /\ out' = Out("click", "none", <<>>, "none")
    /\ UNCHANGED <<status, audioVolume, audioTime, retryCount, retryTimeout, timers,
                   loudVars, histVars>>

\* The element starts by itself once loaded: its autoplay attribute is
\* status.paused === false.
AutoplayStarts ==
    /\ StatusPaused = Some(FALSE) /\ audioPaused /\ musicUrl /= EmptyUrl
    /\ audioPaused' = FALSE
    /\ out' = Out("autoplay", "none", <<>>, "none")
    /\ UNCHANGED <<status, audioVolume, audioTime, playPending, retryVars, loudVars, histVars>>

\* handleEnded: the element reached the end of the track (and is paused again).
HandleEnded ==
    /\ ~audioPaused
    /\ audioPaused' = TRUE
    /\ out' = Out("ended", "none",
                  <<Cmd("next", IF status = None \/ status[1].current = None THEN None
                                ELSE Some(status[1].current[1].id))>>,
                  "none")
    /\ UNCHANGED <<status, audioVolume, audioTime, playPending, retryVars, loudVars, histVars>>

\* A mutant of Reconciles: only frames without a command and explicit paused
\* commands reconcile the element.
Reconciles_ExplicitOnly(cmd) == cmd \in {"none", "paused"}

\* The handler of PlayerWs: after the mirror is updated a 'progress' frame
\* returns, every other frame goes on to the audio element.
Reconciles(cmd) == cmd /= "progress"

\* A mutant of CountAfterUrlChange: the watcher only updates the volume.
CountAfterUrlChange_Kept(count) == count

\* watch(musicUrl): retryCount.value = 3.
CountAfterUrlChange(count) == InitialRetryCount

\* A frame {command?, status} arrives: the handler of PlayerWs, then the
\* watchers of musicUrl and targetDbFS (flushed before any other callback
\* runs), then the re-render that gives the element its new src, which makes
\* the element load (paused again, position 0).
OnCommand(cmd, value, snap) ==
    LET st == Some(ObjectAssign(StatusObj, snap))
        doPlay == Reconciles(cmd) /\ snap.paused = FALSE /\ audioPaused
        doPause == Reconciles(cmd) /\ ~doPlay /\ snap.paused /\ ~audioPaused
        urlChanged == MusicUrlOf(st) /= musicUrl
        targetChanged == TargetDbOf(st) /= targetDbFS
        m1 == IF urlChanged THEN UpdateVolume(Machine, st) ELSE Machine
        m2 == IF targetChanged THEN UpdateVolume(m1, st) ELSE m1
    IN  /\ status' = st
        /\ arrived' = Some([status |-> snap])
        /\ \E begins \in (IF doPlay THEN BOOLEAN ELSE {FALSE}) :
             LET handled == IF doPlay THEN (IF begins THEN FALSE ELSE audioPaused)
                            ELSE IF doPause THEN TRUE ELSE audioPaused
             IN  /\ audioPaused' = IF urlChanged THEN TRUE ELSE handled
                 /\ IF doPlay
                    THEN playPending < MaxPending /\ playPending' = playPending + 1
                    ELSE UNCHANGED playPending
        /\ audioTime' = IF urlChanged THEN 0
                        ELSE IF Reconciles(cmd) /\ cmd = "seek" THEN value ELSE audioTime
        /\ InstallMachine(m2)
        /\ retryCount' = IF urlChanged THEN CountAfterUrlChange(retryCount) ELSE retryCount
        /\ IF urlChanged
           THEN /\ errs' = 0 /\ skips' = 0
                /\ clean' = (timers = {})
                /\ countAtChange' = retryCount
           ELSE UNCHANGED histVars
        /\ out' = Out("frame", cmd, m2.sent, "none")
        /\ UNCHANGED <<autoplayNeedGuesture, retryTimeout, timers, failed>>

\* ----------------------------------------------------------- initial state
\* No utility call is under study.
TextIdle == textIn = None /\ textOut = None

\* A socket as createWs makes it: both handlers set.  Connecting and open are
\* one state here: a socket that fails to connect closes.
NewSocket == [state |-> "open", onclose |-> TRUE, onmessage |-> TRUE]

\* A mutant of CreateWs: the closed flag is not looked at.
CreateWs_Unguarded(closed, sockets, ws) ==
    [sockets |-> Append(sockets, NewSocket), ws |-> Len(sockets) + 1]

\* createWs: the sockets there are after the call and the socket in this.ws.
CreateWs(closed, sockets, ws) ==
    IF closed THEN [sockets |-> sockets, ws |-> ws]
    ELSE [sockets |-> Append(sockets, NewSocket), ws |-> Len(sockets) + 1]

\* The PlayerWs after its constructor: this.ws = this.createWs().
SocketInit ==
    LET made == CreateWs(FALSE, <<>>, 0)
    IN  /\ wsClosed = FALSE
        /\ wsSockets = made.sockets
        /\ wsCurrent = made.ws
        /\ wsTimers = 0
        /\ wsDelivered = 0

\* useManualAdd with nothing stored for the session and no call made.
AddIdle == addLoading = {} /\ addRequests = <<>>

SideIdle == TextIdle /\ SocketInit /\ AddIdle

PlayerInit ==
    /\ status = None
    /\ audioPaused = TRUE
    /\ audioVolume = GainScale
    /\ audioTime = 0
    /\ playPending = 0
    /\ autoplayNeedGuesture = FALSE
    /\ retryCount = InitialRetryCount
    /\ retryTimeout = None
    /\ timers = {}
    /\ dbFSCache = <<>>
    /\ inflight = <<>>
    /\ started = <<>>
    /\ failed = {}
    /\ out = [op |-> "init", arg |-> "none", sent |-> <<>>, log |-> "none"]
    /\ errs = 0 /\ skips = 0 /\ clean = TRUE /\ countAtChange = InitialRetryCount
    /\ messages = <<>>
    /\ removerTimeout = None
    /\ removers = {}
    /\ fades = <<>>
    /\ scenario = "none"
    /\ playerStatus = None
    /\ combinedList = <<>>
    /\ suppressStatusUntil = 0
    /\ now = 0
    /\ arrived = None
    /\ reordered = None
    /\ mounted = TRUE
    /\ reported = None

GainIdle == gLoud = 0 /\ gTarget = 0 /\ gGain = None

\* ------------------------------------------- the playback recovery controller
\* Frames of this specification: every song carries its decibel and is in
\* the playlist, so that no fetch-and-decode is needed.
SongA == Song("a", Some(-20))
SongB == Song("b", Some(-50))
PlaybackEntries == {Entry(1, SongA), Entry(2, SongB)}
PlaybackCommands == {"none", "paused", "seek", "progress"}

PlaybackSnapshots ==
    {[paused |-> p, progress |-> 0, current |-> Some(e),
      playlist |-> <<Entry(1, SongA), Entry(2, SongB)>>, cached_songs |-> <<>>,
      target_db |-> DefaultTargetDb] : p \in BOOLEAN, e \in PlaybackEntries}

Frame ==
    /\ \E cmd \in PlaybackCommands, snap \in PlaybackSnapshots :
            OnCommand(cmd, IF cmd = "seek" THEN 1 ELSE 0, snap)
    /\ UNCHANGED <<sideVars, viewVars, gainVars, notifyVars, controlState>>

Rejected ==
    /\ \E kind \in {"autoplay", "benign", "real"} : PlayReject(kind)
    /\ UNCHANGED <<sideVars, viewVars, gainVars, notifyVars, controlVars>>

Resolved == PlayResolve /\ UNCHANGED <<sideVars, viewVars, gainVars, notifyVars, controlVars>>

MediaError ==
    /\ \E kind \in {"benign", "real"} : HandleError(kind)
    /\ UNCHANGED <<sideVars, viewVars, gainVars, notifyVars, controlVars>>

RetryFires ==
    /\ \E id \in timers : RetryTimerFire(id)
    /\ UNCHANGED <<sideVars, viewVars, gainVars, notifyVars, controlVars>>

Clicked == ClickPlay /\ UNCHANGED <<sideVars, viewVars, gainVars, notifyVars, controlVars>>
Autoplays == AutoplayStarts /\ UNCHANGED <<sideVars, viewVars, gainVars, notifyVars, controlVars>>
Ended == HandleEnded /\ UNCHANGED <<sideVars, viewVars, gainVars, notifyVars, controlVars>>

Next ==
    \/ Frame
    \/ Rejected
    \/ Resolved
    \/ MediaError
    \/ RetryFires
    \/ Clicked
    \/ Autoplays
    \/ Ended

Init == PlayerInit /\ GainIdle /\ SideIdle

Spec == Init /\ [][Next]_vars

\* ------------------------------------------------- the loudness normaliser
\* Frames of this specification: the player stays paused; song "a" comes with
\* the decibel the server computed for it, as the current song and in the
\* playlist; song "b" comes with a decibel of 0 as the current song and with
\* or without it in the playlist; the playlist may be empty.
LoudSnapshots ==
    {[paused |-> TRUE, progress |-> 0, current |-> c,
      playlist |-> pl, cached_songs |-> <<>>, target_db |-> t] :
        c \in {None, Some(Entry(1, SongA)), Some(Entry(2, Song("b", Some(0))))},
        pl \in {<<>>} \cup {<<Entry(1, SongA), Entry(2, Song("b", d))>> : d \in {None, Some(0)}},
        t \in {DefaultTargetDb, -30}}

LoudFrame ==
    /\ \E snap \in LoudSnapshots : OnCommand("none", 0, snap)
    /\ UNCHANGED <<sideVars, viewVars, gainVars, notifyVars, controlState>>

DecodeOk ==
    /\ \E i \in 1 .. Len(inflight) : DecodeDone(i, TRUE)
    /\ UNCHANGED <<sideVars, viewVars, gainVars, notifyVars, controlVars>>

DecodeFails ==
    /\ \E i \in 1 .. Len(inflight) : DecodeDone(i, FALSE)
    /\ UNCHANGED <<sideVars, viewVars, gainVars, notifyVars, controlVars>>

LoudNext ==
    \/ LoudFrame
    \/ DecodeOk
    \/ DecodeFails

SpecLoud == Init /\ [][LoudNext]_vars

\* ------------------------------------------- the gain as a pure function
LoudRange == (0 - MaxLoudBelow) .. MaxLoudAbove
TargetRange == TargetMin .. TargetMax

GainInit ==
    /\ gLoud \in LoudRange
    /\ gTarget \in TargetRange
    /\ gGain = None
    /\ PlayerInit
    /\ SideIdle

CalculateVolumeLevel ==
    /\ gGain = None
    /\ gGain' = Some(VolumeLevel(gLoud, gTarget))
    /\ UNCHANGED <<gLoud, gTarget, playerVars, notifyVars, controlVars, viewVars, sideVars>>

GainNext == CalculateVolumeLevel

SpecGain == GainInit /\ [][GainNext]_vars

\* C1: for every loudness figure L and every target T the gain g returned by
\* calculateVolumeLevel satisfies 0 < g <= 1, g = 1 when L <= T and g < 1
\* when L > T: a track is never amplified.
C1_GainAttenuationOnly ==
    gGain /= None =>
        LET g == gGain[1] IN
        /\ 0 < g /\ g <= GainScale
        /\ (gLoud <= gTarget => g = GainScale)
        /\ (gLoud > gTarget => g < GainScale)

\* Scenario: loudness -6 dB against target -40 dB gives a gain of about 0.02.
C1_Witness ==
    /\ gGain /= None
    /\ gLoud = -6 /\ gTarget = -40
    /\ gGain[1] > 19900 /\ gGain[1] < 20000

\* ------------------------------------------------- claims on the recovery
HasCurrent == status /= None /\ status[1].current /= None
ErrorOps == {"play-rejected", "error-event"}
NextForCurrent == <<Cmd("next", Some(status[1].current[1].id))>>

\* C2 as stated: on an unchanged track that is not paused, once three
\* consecutive real errors have been handled, each followed by its backoff, a
\* skip intent has been sent.
C2_SkipAfterThreeErrors ==
    (/\ clean /\ errs = 3 /\ timers = {}
     /\ musicUrl /= EmptyUrl /\ StatusPaused = Some(FALSE)) => skips >= 1

\* C2 as amended: on an unchanged track that started with no retry pending,
\* the first three consecutive real errors, each followed by its backoff, only
\* use up the retries (the count goes 3, 2, 1, 0 and no skip is sent); the skip
\* intent for the current track is sent when a fourth real error is handled.
C2_SkipOnFourthError ==
    clean =>
        /\ (errs <= 3 => skips = 0)
        /\ (errs <= 3 /\ timers = {} => retryCount = InitialRetryCount - errs)
        /\ (errs = 4 /\ musicUrl /= EmptyUrl => skips = 1 /\ retryCount = 0)

C2_Witness ==
    /\ clean /\ errs = 4 /\ skips = 1 /\ musicUrl /= EmptyUrl
    /\ out.op \in ErrorOps /\ out.arg = "real" /\ out.sent = NextForCurrent

\* C3 as stated: between two changes of the track url at most one skip intent
\* is sent by the error escalation.
C3_AtMostOneSkip == skips <= 1

\* C3 as amended: while the retry count is 0, every error that handlePlayError
\* does not take for an autoplay refusal sends one more skip intent for the
\* current track (when there is one) and schedules no retry, so a further
\* error on the unchanged track sends a further skip; while the count is
\* positive no skip is sent.
C3_SkipOnEveryErrorAtZero ==
    [][(out'.op \in ErrorOps /\ out'.arg /= "autoplay") =>
          IF retryCount = 0 /\ HasCurrent
          THEN /\ out'.sent = NextForCurrent
               /\ skips' = skips + 1
               /\ timers' = timers
          ELSE /\ out'.sent = <<>>
               /\ skips' = skips]_vars

C3_Witness ==
    /\ skips = 2 /\ retryCount = 0 /\ out.op \in ErrorOps /\ out.sent = NextForCurrent

\* C4: whenever the track url changes, whatever the count was before, the
\* retry count is 3 once the change has been processed.
C4_CountResetOnUrlChange ==
    [][musicUrl' /= musicUrl => retryCount' = 3]_vars

C4_Witness ==
    /\ out.op = "frame" /\ errs = 0 /\ countAtChange = 0 /\ retryCount = 3

\* C5: in every reachable state the retry count is a whole number from 0 to 3.
C5_CountInRange == retryCount \in 0 .. 3

C5_Witness == retryCount = 0 /\ errs = 3 /\ out.op = "retry-timer"

C7_NoPlayWhileAwaitingGesture ==
    [][autoplayNeedGuesture =>
          /\ (playPending' > playPending => out'.op = "click")
          /\ (~autoplayNeedGuesture' => out'.op = "click")]_vars

\* C7 as amended: handling an autoplay refusal puts the gate up and does
\* nothing else (no retry timer, no change of the count, no skip, no play
\* call), and only the click of the user, which calls play(), takes the gate
\* down; frames and retry timers that arrive while the gate is up still call
\* play() as they do without it.
C7_GateOnlyClearedByClick ==
    [][/\ (out'.op \in ErrorOps /\ out'.arg = "autoplay") =>
             /\ autoplayNeedGuesture'
             /\ UNCHANGED <<retryCount, retryTimeout, timers, skips>>
             /\ out'.sent = <<>>
             /\ playPending' <= playPending
       /\ (autoplayNeedGuesture /\ ~autoplayNeedGuesture') =>
             /\ out'.op = "click"
             /\ playPending' = playPending + 1]_vars

C7_Witness ==
    /\ autoplayNeedGuesture /\ out.op = "play-rejected" /\ out.arg = "autoplay"

\* C8 as stated: every frame, whatever its command, reconciles the element
\* with the paused flag of its snapshot: play is requested when the flag is
\* false and the element paused, the element is paused when the flag is true
\* and the element playing.
C8_ReconcileOnEveryFrame ==
    [][out'.op = "frame" =>
          /\ (StatusPaused' = Some(FALSE) /\ audioPaused) => playPending' = playPending + 1
          /\ (StatusPaused' = Some(TRUE) /\ ~audioPaused) => audioPaused']_vars

\* C8 as amended: every frame whose command is not 'progress' reconciles the
\* element in that way; a 'progress' frame only updates the mirror, it neither
\* requests play nor pauses the element.
C8_ReconcileExceptProgress ==
    [][out'.op = "frame" =>
          IF out'.arg /= "progress"
          THEN /\ (StatusPaused' = Some(FALSE) /\ audioPaused) =>
                      playPending' = playPending + 1
               /\ (StatusPaused' = Some(TRUE) /\ ~audioPaused) => audioPaused'
          ELSE /\ playPending' = playPending
               /\ (musicUrl' = musicUrl => audioPaused' = audioPaused)]_vars

C8_Witness ==
    /\ out.op = "frame" /\ out.arg = "seek"
    /\ StatusPaused = Some(FALSE) /\ playPending = MaxPending

\* ------------------------------------------------ claims on the loudness cache
DecibelGiven(songList, url, v) ==
    \E i \in 1 .. Len(songList) :
        getAudioUrl(songList[i].filename) = url /\ songList[i].decibel = Some(v)

C10_DecodeOncePerUrl ==
    \A u \in DOMAIN started : u \notin failed => started[u] <= 1

\* C10 as amended: a fetch-and-decode is started only for a non-empty url that
\* has no cache entry, so none is started once a figure is cached; runs in
\* flight are not tracked, and a url whose first run has not settled yet gets
\* a further run whenever updateVolume comes to it again.
C10_DecodeOnlyWhenNotCached ==
    [][\A u \in DOMAIN started' :
          started'[u] > CountOf(started, u) =>
              u /= EmptyUrl /\ u \notin DOMAIN dbFSCache']_vars

C10_Witness ==
    LET a == getAudioUrl("a") IN
    /\ a \in DOMAIN started /\ started[a] = 2 /\ a \notin failed
    /\ a \notin DOMAIN dbFSCache
    /\ Len(inflight) = 2 /\ inflight[1].url = a /\ inflight[2].url = a

\* The run of inflight that settled in this step: the runs before it and after
\* it are still in flight, in their order, followed by the runs started since.
Settled(i) ==
    /\ i \in 1 .. Len(inflight)
    /\ Len(inflight') >= Len(inflight) - 1
    /\ SubSeq(inflight', 1, Len(inflight) - 1) = RemoveAt(inflight, i)

\* C11: a fetch-and-decode run that fails hands the fallback figure of -10 dB
\* to its caller (updateVolume sets the volume from it and reports it) and
\* writes nothing to the cache, so a url without an entry still has none; and
\* when updateVolume comes again to a url that has failed and has no entry, a
\* new run is started for it.
C11_FailureFallsBackAndCachesNothing ==
    [][/\ (out'.op = "decode" /\ out'.arg = "error") =>
             /\ dbFSCache' = dbFSCache
             /\ \E i \in 1 .. Len(inflight) :
                   /\ Settled(i)
                   /\ inflight[i].url \in failed'
                   /\ IF inflight[i].cont = "main"
                      THEN /\ audioVolume' = VolumeLevel(-10, targetDbFS)
                           /\ out'.sent = <<Cmd("volume-report", Some(audioVolume'))>>
                      ELSE /\ audioVolume' = audioVolume
                           /\ out'.sent = <<>>
       /\ (/\ out'.op = "frame"
           /\ musicUrl' \in failed /\ musicUrl' \notin DOMAIN dbFSCache'
           /\ (musicUrl' /= musicUrl \/ targetDbFS' /= targetDbFS)) =>
             started'[musicUrl'] > started[musicUrl']]_vars

\* The run for song "a" has failed, nothing is cached for it, and a second run
\* for it is in flight.
C11_Witness ==
    LET a == getAudioUrl("a") IN
    /\ a \in failed /\ a \notin DOMAIN dbFSCache
    /\ a \in DOMAIN started /\ started[a] = 2
    /\ Len(inflight) = 1 /\ inflight[1].url = a
    /\ audioVolume = VolumeLevel(-10, targetDbFS)

\* The decibel that the song list of the snapshot carries for the current
\* track: the set of the figures of its entries for that filename.
ListedDecibels(st) ==
    IF MusicUrlOf(st) = EmptyUrl THEN {}
    ELSE {SongListOf(st)[i].decibel[1] :
            i \in {j \in 1 .. Len(SongListOf(st)) :
                      /\ getAudioUrl(SongListOf(st)[j].filename) = MusicUrlOf(st)
                      /\ SongListOf(st)[j].decibel /= None}}

\* C12 as stated, for a track that the playlist carries too: when a frame makes
\* a track with a decibel (any number, 0 included) the active one, the figure
\* is cached under the url of the track, the volume is set from it, and no
\* fetch-and-decode is started for the track.
C12_DecibelShortCircuits ==
    [][(/\ out'.op = "frame" /\ musicUrl' /= musicUrl /\ musicUrl' /= EmptyUrl
        /\ status'[1].current[1].music.decibel /= None
        /\ status'[1].current[1].music.decibel[1] \in ListedDecibels(status')) =>
          LET v == status'[1].current[1].music.decibel[1] IN
          /\ musicUrl' \in DOMAIN dbFSCache' /\ dbFSCache'[musicUrl'] = v
          /\ audioVolume' = VolumeLevel(v, targetDbFS')
          /\ CountOf(started', musicUrl') = CountOf(started, musicUrl')]_vars

\* What holds of the decibel in place of C12: a decibel other than 0 that an
\* entry of the playlist or of the cached songs carries for the url of the
\* active track is cached, the volume is set from it and no fetch-and-decode
\* is started; the decibel of status.current itself is not read.
C12_ListedNonZeroDecibelShortCircuits ==
    [][(/\ out'.op = "frame" /\ musicUrl' /= musicUrl /\ musicUrl' /= EmptyUrl) =>
          \A v \in ListedDecibels(status') \ {0} :
              /\ musicUrl' \in DOMAIN dbFSCache' /\ dbFSCache'[musicUrl'] = v
              /\ audioVolume' = VolumeLevel(v, targetDbFS')
              /\ CountOf(started', musicUrl') = CountOf(started, musicUrl')]_vars

\* Song "a" became the active track with the playlist carrying -20 for it.
C12_Witness ==
    LET a == getAudioUrl("a") IN
    /\ out.op = "frame" /\ musicUrl = a /\ a \notin DOMAIN started
    /\ a \in DOMAIN dbFSCache /\ dbFSCache[a] = -20
    /\ -20 \in ListedDecibels(status)
    /\ out.sent = <<Cmd("volume-report", Some(VolumeLevel(-20, targetDbFS)))>>

\* --------------------------------------------------- the notification banner
\* A player event as handleEvent reads it: its type and its query field (None
\* when the event has no such field).
Event(type, query) == [type |-> type, query |-> query]

\* A StatusMessage: the event it shows and the timeout it was pushed with.
Message(event, timeout) == [type |-> event.type, query |-> event.query, timeout |-> timeout]

\* message.timeout || 3000
TimeoutOf(message) ==
    IF message.timeout = None \/ message.timeout[1] = 0 THEN DefaultTimeout
    ELSE message.timeout[1]

\* messages.value.findIndex(msg => msg.event.type === type && msg.event.query
\* === query), counted from 1; 0 when no message matches.
FindIndex(msgs, type, query) ==
    LET hits == {i \in 1 .. Len(msgs) : msgs[i].type = type /\ msgs[i].query = query}
    IN  IF hits = {} THEN 0 ELSE CHOOSE i \in hits : \A j \in hits : i <= j

\* replaceSearching / replaceLoading: a message found behind the head is
\* spliced out.
RemoveFound(msgs, index) == IF index > 1 THEN RemoveAt(msgs, index) ELSE msgs

\* A mutant of ReplaceFirst: a message found anywhere asks for the replace
\* transition.
ReplaceFirst_Found(msgs, type, query) ==
    LET index == FindIndex(msgs, type, query)
    IN  [msgs |-> RemoveFound(msgs, index), replaceLatest |-> index >= 1]

\* A mutant of ReplaceFirst: a message found at the head is left to its timer.
ReplaceFirst_NeverHead(msgs, type, query) ==
    [msgs |-> RemoveFound(msgs, FindIndex(msgs, type, query)), replaceLatest |-> FALSE]

\* replaceSearching / replaceLoading: the queue they leave and what they return.
ReplaceFirst(msgs, type, query) ==
    LET index == FindIndex(msgs, type, query)
    IN  [msgs |-> RemoveFound(msgs, index), replaceLatest |-> index = 1]

replaceSearching(msgs, event) == ReplaceFirst(msgs, "searching", event.query)
replaceLoading(msgs, event) == ReplaceFirst(msgs, "query-loading", event.query)

\* The banner as the handlers work on it.
Banner == [messages |-> messages, removerTimeout |-> removerTimeout,
           removers |-> removers, fades |-> fades]

\* window.setTimeout(shiftMessage, delay), kept in removerTimeout.  A timer
\* runs after the 50 ms waits that were pending when it was set: wait counts
\* them.
ScheduleRemover(n, delay) ==
    LET id == SetTimeout({r.id : r \in n.removers})
    IN  [n EXCEPT !.removers = @ \cup {[id |-> id, delay |-> delay, wait |-> Len(n.fades)]},
                  !.removerTimeout = Some(id)]

\* A mutant of ClearRemover: the pending timer is forgotten, not cleared.
ClearRemover_Forgotten(n) == [n EXCEPT !.removerTimeout = None]

\* pushStatusMessage: if (removerTimeout) { clearTimeout(removerTimeout);
\* removerTimeout = null }
ClearRemover(n) ==
    IF n.removerTimeout = None THEN n
    ELSE [n EXCEPT !.removers = {r \in @ : r.id /= n.removerTimeout[1]},
                   !.removerTimeout = None]

\* pushStatusMessage, its last line: the delay of the timer it sets.
RemoverDelay(msgs, message) == TimeoutOf(message)

\* A mutant of EnsureRemover: the last line of pushStatusMessage is left out.
EnsureRemover_Never(n, message) == n

\* pushStatusMessage, its last line.
EnsureRemover(n, message) ==
    IF n.removerTimeout = None THEN ScheduleRemover(n, RemoverDelay(n.messages, message))
    ELSE n

\* pushStatusMessage up to its await, or to its end when it does not wait.
PushStatusMessage(n, message, replaceLatest) ==
    IF replaceLatest /\ Len(n.messages) >= 1
    THEN LET n1 == ClearRemover(n)
         IN  [n1 EXCEPT !.messages = <<Head(@), message>> \o Tail(@),
                        !.fades = Append(@, message)]
    ELSE EnsureRemover([n EXCEPT !.messages = Append(@, message)], message)

QueryTypes == {"searching", "query-loading", "query-success", "query-fail"}
PlainTypes == {"cancel-fail", "cancel-success", "skip-fail", "skip-success"}

\* handleEvent for query-success and query-fail: replaceSearching() ||
\* replaceLoading(), the second call made only when the first returns false.
ResultReplace(msgs, event) ==
    LET r1 == replaceSearching(msgs, event)
    IN  IF r1.replaceLatest THEN r1 ELSE replaceLoading(r1.msgs, event)

\* A mutant of RequestFailReplace: request-fail looks for no searching message.
RequestFailReplace_None(msgs, event) == [msgs |-> msgs, replaceLatest |-> FALSE]

\* handleEvent for request-fail: const replaceLatest = replaceSearching().
RequestFailReplace(msgs, event) == replaceSearching(msgs, event)

\* handleEvent: the queue after its replace calls, and the arguments of the
\* push that follows.
Plan(msgs, event) ==
    CASE event.type = "searching" ->
            [msgs |-> msgs, replaceLatest |-> FALSE, timeout |-> Some(SearchingTimeout)]
      [] event.type = "query-loading" ->
            LET r == replaceSearching(msgs, event)
            IN  [msgs |-> r.msgs, replaceLatest |-> r.replaceLatest,
                 timeout |-> Some(LoadingTimeout)]
      [] event.type \in {"query-success", "query-fail"} ->
            LET r == ResultReplace(msgs, event)
            IN  [msgs |-> r.msgs, replaceLatest |-> r.replaceLatest,
                 timeout |-> Some(ResultTimeout)]
      [] event.type = "request-fail" ->
            LET r == RequestFailReplace(msgs, event)
            IN  [msgs |-> r.msgs, replaceLatest |-> r.replaceLatest, timeout |-> None]
      [] OTHER ->
            [msgs |-> msgs, replaceLatest |-> FALSE, timeout |-> None]

\* The number of messages the replace calls of handleEvent splice out.
SplicedOut(msgs, event) == Len(msgs) - Len(Plan(msgs, event).msgs)

WithinBannerBounds(n) ==
    /\ Len(n.messages) <= MaxQueue
    /\ Len(n.fades) <= MaxFades

InstallBanner(n) ==
    /\ WithinBannerBounds(n)
    /\ messages' = n.messages
    /\ removerTimeout' = n.removerTimeout
    /\ removers' = n.removers
    /\ fades' = n.fades

Idle == messages = <<>> /\ fades = <<>> /\ removers = {}

\* handleEvent(event), with the part of pushStatusMessage that runs at once.
HandleEvent(event) ==
    /\ Cardinality(removers) < MaxTimerId
    /\ LET plan == Plan(messages, event)
           message == Message(event, plan.timeout)
       IN  InstallBanner(PushStatusMessage([Banner EXCEPT !.messages = plan.msgs],
                                           message, plan.replaceLatest))
    /\ scenario' = IF Idle /\ event = Event("searching", Some("A")) THEN "searching"
                   ELSE IF scenario = "searching" /\ event = Event("query-loading", Some("A"))
                        THEN "loading"
                   ELSE IF scenario = "loading" /\ event = Event("query-success", Some("A"))
                        THEN "success"
                   ELSE IF SplicedOut(messages, event) > 0 THEN "spliced"
                        ELSE "none"
    /\ out' = Out("event", event.type, <<>>, "none")
    /\ UNCHANGED <<status, audioVars, retryVars, loudVars, histVars>>

\* pushStatusMessage after its await of 50 ms: the head is shifted out and the
\* last line runs.  The waits end in the order they began, and each timer set
\* while this one was pending has one wait less before it.
FadeDone ==
    /\ fades /= <<>>
    /\ Cardinality(removers) < MaxTimerId
    /\ LET message == Head(fades)
           n1 == [Banner EXCEPT
                    !.messages = IF @ = <<>> THEN @ ELSE Tail(@),
                    !.fades = Tail(@),
                    !.removers = {[r EXCEPT !.wait = IF @ > 0 THEN @ - 1 ELSE 0] : r \in @}]
       IN  InstallBanner(EnsureRemover(n1, message))
    /\ out' = Out("fade-done", Head(fades).type, <<>>, "none")
    /\ UNCHANGED <<status, audioVars, retryVars, loudVars, histVars, scenario>>

\* shiftMessage, the callback of the eviction timer r.
ShiftMessage(r) ==
    /\ r \in removers /\ r.wait = 0
    /\ LET n1 == [Banner EXCEPT
                    !.removers = @ \ {r},
                    !.messages = IF Len(@) > 0 THEN Tail(@) ELSE @]
       IN  InstallBanner(IF Len(n1.messages) > 0
                         THEN ScheduleRemover(n1, TimeoutOf(n1.messages[1]))
                         ELSE [n1 EXCEPT !.removerTimeout = None])
    /\ scenario' = "none"
    /\ out' = Out("evict", IF messages = <<>> THEN "none" ELSE messages[1].type, <<>>, "none")
    /\ UNCHANGED <<status, audioVars, retryVars, loudVars, histVars>>

\* The events of this specification: the four events of a query "A", the four
\* events that carry no query, and request-fail without or with the query.
NotifyEvents ==
    {Event(t, Some("A")) : t \in QueryTypes}
        \cup {Event(t, None) : t \in PlainTypes}
        \cup {Event("request-fail", q) : q \in {None, Some("A")}}

ShowEvent ==
    /\ \E event \in NotifyEvents : HandleEvent(event)
    /\ UNCHANGED <<sideVars, viewVars, gainVars, controlVars>>

Crossfaded == FadeDone /\ UNCHANGED <<sideVars, viewVars, gainVars, controlVars>>

Evicts ==
    /\ \E r \in removers : ShiftMessage(r)
    /\ UNCHANGED <<sideVars, viewVars, gainVars, controlVars>>

NotifyNext ==
    \/ ShowEvent
    \/ Crossfaded
    \/ Evicts

SpecNotify == Init /\ [][NotifyNext]_vars

\* Two queries whose events interleave.
InterleavedEvents ==
    {Event(t, Some(q)) : t \in {"searching", "query-loading", "query-success"},
                         q \in {"A", "B"}}

ShowInterleaved ==
    /\ \E event \in InterleavedEvents : HandleEvent(event)
    /\ UNCHANGED <<sideVars, viewVars, gainVars, controlVars>>

InterleaveNext ==
    \/ ShowInterleaved
    \/ Crossfaded
    \/ Evicts

SpecInterleave == Init /\ [][InterleaveNext]_vars

\* The banner under its scheduling: a 50 ms wait that is pending ends, and an
\* eviction timer that is pending and not cleared fires.
SpecDrain ==
    Init /\ [][NotifyNext]_vars /\ WF_vars(Crossfaded) /\ WF_vars(Evicts)

\* ------------------------------------------------------ claims on the banner
SearchingA == Message(Event("searching", Some("A")), Some(3000))
LoadingA == Message(Event("query-loading", Some("A")), Some(5000))
SuccessA == Message(Event("query-success", Some("A")), Some(6000))

\* C13: from the empty queue, searching{A} followed within its timeout by
\* query-loading{A} leaves, once the replace transition has finished, a queue
\* of length 1 with the query-loading message as its head, and the queue is
\* never empty from the first push on.
C13_SearchingReplacedByLoading ==
    /\ scenario \in {"searching", "loading"} => messages /= <<>>
    /\ scenario = "searching" => messages = <<SearchingA>>
    /\ (scenario = "loading" /\ fades /= <<>>) => messages = <<SearchingA, LoadingA>>
    /\ (scenario = "loading" /\ fades = <<>>) => messages = <<LoadingA>>

C13_Witness ==
    /\ scenario = "loading" /\ out.op = "fade-done" /\ fades = <<>>
    /\ messages = <<LoadingA>>

\* C14 as stated: whenever a replace transition completes, the message it
\* inserted is the head of the queue, whatever events arrived during its 50 ms.
C14_ReplacingMessageBecomesHead ==
    [][out'.op = "fade-done" =>
          messages' /= <<>> /\ Head(messages') = Head(fades)]_vars

\* C15 as stated, for one query on an empty queue: after searching{A},
\* query-loading{A} and query-success{A}, once every replace transition has
\* finished, the queue holds no searching and no query-loading message of A.
C15_NoStaleMessageAfterSuccess ==
    (scenario = "success" /\ fades = <<>>) =>
        /\ FindIndex(messages, "searching", Some("A")) = 0
        /\ FindIndex(messages, "query-loading", Some("A")) = 0

\* C16: at every moment at most one eviction timer is pending, and it is the
\* one whose id removerTimeout holds; with no timer pending removerTimeout is
\* null.
C16_OneEvictionTimer ==
    /\ Cardinality(removers) <= 1
    /\ \A r \in removers : removerTimeout = Some(r.id)
    /\ removers = {} => removerTimeout = None

\* A replace transition is in progress, its timer cleared, and a timer set by a
\* push that arrived meanwhile is pending.
C16_Witness ==
    /\ fades /= <<>> /\ Cardinality(removers) = 1 /\ out.op = "event"
    /\ \E r \in removers : r.wait = 1

\* C17 as stated: with no replace transition in progress, a pending eviction
\* timer has the delay of the timeout of the head of the queue (3000 when the
\* head has none).
C17_TimerHasTimeoutOfHead ==
    fades = <<>> =>
        \A r \in removers : messages /= <<>> /\ r.delay = TimeoutOf(Head(messages))

\* The message the last event pushed, whatever query the event carried.
PushedBy(type) == {Message(Event(type, q), None) : q \in {None, Some("A")}}

\* C18 as stated: a cancel-fail, cancel-success, skip-fail, skip-success or
\* request-fail event only appends its message, without a timeout of its own,
\* at the tail of the queue.
C18_OnlyAppends ==
    [][(out'.op = "event" /\ out'.arg \in PlainTypes \cup {"request-fail"}) =>
          \E m \in PushedBy(out'.arg) : messages' = Append(messages, m)]_vars

\* C18 as amended: cancel-fail, cancel-success, skip-fail and skip-success only
\* append their message, without a timeout of its own, at the tail.  request-fail
\* treats the first searching message whose query equals its own query field
\* as query-loading does: found behind the head it is removed and the new
\* message appended; found at the head, the new message is inserted behind it
\* and a replace transition begins (the pending timer cleared); not found, the
\* new message is appended.
C18_OnlyRequestFailReplaces ==
    [][(out'.op = "event" /\ out'.arg \in PlainTypes \cup {"request-fail"}) =>
          \E m \in PushedBy(out'.arg) :
              LET index == IF out'.arg = "request-fail"
                           THEN FindIndex(messages, "searching", m.query) ELSE 0
              IN  CASE index = 0 -> messages' = Append(messages, m) /\ fades' = fades
                    [] index = 1 -> /\ messages' = <<messages[1], m>> \o Tail(messages)
                                    /\ fades' = Append(fades, m)
                                    /\ removers' = {} /\ removerTimeout' = None
                    [] OTHER -> /\ messages' = Append(RemoveAt(messages, index), m)
                                /\ fades' = fades]_vars

\* A request-fail event with the query of the searching message at the head
\* has begun to replace it.
C18_Witness ==
    /\ out.op = "event" /\ out.arg = "request-fail"
    /\ Len(messages) >= 2 /\ messages[1].type = "searching"
    /\ messages[2] = Message(Event("request-fail", Some("A")), None)
    /\ fades = <<messages[2]>> /\ removers = {}

\* ------------------------------------------------------ the playlist control
\* A frame as the playlist control reads it: the cmd of its command ("" when
\* the frame has none) and, of its snapshot, the id of the current entry and
\* the combined list, each entry with its id and its progress.
ControlEntry(id, progress) == [id |-> id, progress |-> progress]
ControlFrame(cmd, current, list) ==
    [cmd |-> cmd, status |-> [current |-> current, combined_list |-> list]]

\* currentId of the playlist control: playerStatus.value?.current?.id.
CurrentIdOf(ps) == IF ps = None THEN None ELSE ps[1].current
currentId == CurrentIdOf(playerStatus)

\* A mutant of Suppressed: the window holds back every frame.
Suppressed_AnyCommand(cmd, t, until) == t < until

\* A mutant of Suppressed: a window once opened never runs out.
Suppressed_Forever(cmd, t, until) == until > 0 /\ cmd \in {"status", "progress"}

\* The callback of the playlist control: Date.now() < suppressStatusUntil and
\* the cmd is 'status' or 'progress'.
Suppressed(cmd, t, until) == t < until /\ cmd \in {"status", "progress"}

\* A mutant of Mirrored: a frame held back by the window is not mirrored.
Mirrored_UnlessSuppressed(old, frame, t, until) ==
    IF Suppressed(frame.cmd, t, until) THEN old ELSE Some(frame.status)

\* usePlayerStatus: playerStatus.value = command.status, before onCommand.
Mirrored(old, frame, t, until) == Some(frame.status)

\* The handler that usePlayerStatus gives to PlayerWs, with the callback of the
\* playlist control as its onCommand.
ControlOnCommand(frame) ==
    /\ arrived' = Some(frame)
    /\ playerStatus' = Mirrored(playerStatus, frame, now, suppressStatusUntil)
    /\ combinedList' = IF Suppressed(frame.cmd, now, suppressStatusUntil)
                       THEN combinedList
                       ELSE frame.status.combined_list
    /\ out' = Out("control-frame", frame.cmd, <<>>, "none")
    /\ UNCHANGED <<suppressStatusUntil, now, reordered>>

\* What the last reordering was: by a move button or by dragging, the time
\* it was made and the list as it was before.
Reordering(by, at, before) == [by |-> by, at |-> at, before |-> before]

\* A mutant of WindowAfterMove: the move buttons open no window.
WindowAfterMove_None(until, t) == until

\* handleMoveDown / handleMoveTop: suppressStatusUntil = Date.now() + 1000.
WindowAfterMove(until, t) == t + SuppressMs

\* handleMoveDown / handleMoveTop: the command goes out and the window opens;
\* the list itself is left as it is.
HandleMove(cmd, id) ==
    /\ suppressStatusUntil' = WindowAfterMove(suppressStatusUntil, now)
    /\ reordered' = Some(Reordering("move", now, combinedList))
    /\ out' = Out("move", cmd, <<Cmd(cmd, Some(id))>>, "none")
    /\ UNCHANGED <<playerStatus, combinedList, now, arrived>>

\* A mutant of WindowAfterRemove: a removal leaves the window as it is.
WindowAfterRemove_Kept(until) == until

\* handleRemove: suppressStatusUntil = 0.
WindowAfterRemove(until) == 0

\* handleRemove: the command goes out and the window closes.
HandleRemove(id) ==
    /\ suppressStatusUntil' = WindowAfterRemove(suppressStatusUntil)
    /\ reordered' = IF reordered = None THEN None
                    ELSE Some([reordered[1] EXCEPT !.by = "removed"])
    /\ out' = Out("remove", "cancel", <<Cmd("cancel", Some(id))>>, "none")
    /\ UNCHANGED <<playerStatus, combinedList, now, arrived>>

\* list.splice(index, 0, item), index counted from 0.
InsertAt(list, index, item) ==
    SubSeq(list, 1, index) \o <<item>> \o SubSeq(list, index + 1, Len(list))

\* onUpdate of the sortable: the dragged item is spliced out of oldIndex and
\* spliced in at newIndex (both counted from 0).
MoveItem(list, oldIndex, newIndex) ==
    InsertAt(RemoveAt(list, oldIndex + 1), newIndex, list[oldIndex + 1])

\* The body of the request sortPlaylist sends: the ids in their new order.
RECURSIVE OrderedIds(_)
OrderedIds(list) ==
    IF list = <<>> THEN <<>> ELSE <<Head(list).id>> \o OrderedIds(Tail(list))

\* onUpdate of the sortable: the list is reordered locally and the new order
\* is posted; suppressStatusUntil is not touched.
HandleSort(oldIndex, newIndex) ==
    /\ combinedList' = MoveItem(combinedList, oldIndex, newIndex)
    /\ reordered' = Some(Reordering("sort", now, combinedList))
    /\ out' = Out("sort", "sort_playlist",
                  <<Cmd("sort_playlist", Some(OrderedIds(combinedList')))>>, "none")
    /\ UNCHANGED <<playerStatus, suppressStatusUntil, now, arrived>>

\* Date.now() moves on by half the length of the window.
TimePasses ==
    /\ now + SuppressMs \div 2 <= MaxNow
    /\ now' = now + SuppressMs \div 2
    /\ out' = Out("time", "none", <<>>, "none")
    /\ UNCHANGED <<playerStatus, combinedList, suppressStatusUntil, arrived, reordered>>

\* The frames of this specification: entries 1 and 2 in either order or entry
\* 2 alone, the progress of entry 1 at 0 or 5, either entry the current one.
ControlLists ==
    {<<ControlEntry(1, p), ControlEntry(2, 0)>> : p \in {0, 5}}
        \cup {<<ControlEntry(2, 0), ControlEntry(1, p)>> : p \in {0, 5}}
        \cup {<<ControlEntry(2, 0)>>}
ControlCommands == {"", "status", "progress", "paused"}
ControlFrames ==
    {ControlFrame(cmd, Some(c), l) : cmd \in ControlCommands, c \in {1, 2}, l \in ControlLists}

playbackVars == <<status, audioVars, retryVars, loudVars, histVars>>

ControlReceives ==
    /\ \E frame \in ControlFrames : ControlOnCommand(frame)
    /\ UNCHANGED <<sideVars, viewVars, gainVars, playbackVars, notifyVars>>

MovesDown ==
    /\ \E i \in 1 .. Len(combinedList) : HandleMove("move-to-end", combinedList[i].id)
    /\ UNCHANGED <<sideVars, viewVars, gainVars, playbackVars, notifyVars>>

MovesTop ==
    /\ \E i \in 1 .. Len(combinedList) : HandleMove("move-to-top", combinedList[i].id)
    /\ UNCHANGED <<sideVars, viewVars, gainVars, playbackVars, notifyVars>>

Removes ==
    /\ \E i \in 1 .. Len(combinedList) : HandleRemove(combinedList[i].id)
    /\ UNCHANGED <<sideVars, viewVars, gainVars, playbackVars, notifyVars>>

\* An item is dragged to another place of the list.
Sorts ==
    /\ \E oldIndex, newIndex \in 0 .. Len(combinedList) - 1 :
          oldIndex /= newIndex /\ HandleSort(oldIndex, newIndex)
    /\ UNCHANGED <<sideVars, viewVars, gainVars, playbackVars, notifyVars>>

ClockTicks == TimePasses /\ UNCHANGED <<sideVars, viewVars, gainVars, playbackVars, notifyVars>>

ControlNext ==
    \/ ControlReceives
    \/ MovesDown
    \/ MovesTop
    \/ Removes
    \/ Sorts
    \/ ClockTicks

SpecControl == Init /\ [][ControlNext]_vars

\* --------------------------------------------- claims on the playlist control
IdsOf(list) == {list[i].id : i \in 1 .. Len(list)}
WindowActive == now < suppressStatusUntil

C20_CurrentFollowsEveryFrame ==
    [][out'.op = "control-frame" =>
          currentId' = arrived'[1].status.current]_vars

\* A 'status' frame came inside the window: its list was held back, its
\* current entry, which the list held back does not have, was taken.
C20_Witness ==
    /\ out.op = "control-frame" /\ out.arg = "status" /\ WindowActive
    /\ combinedList /= arrived[1].status.combined_list
    /\ currentId = Some(1) /\ 1 \notin IdsOf(combinedList)

\* C21 as stated: a frame that arrives while the window is active and whose
\* snapshot has another current entry than the control had is applied in
\* full, whatever its command: combinedList becomes its combined list.
C21_ChangedCurrentAppliesInFull ==
    [][(/\ out'.op = "control-frame" /\ WindowActive
        /\ arrived'[1].status.current /= currentId) =>
          combinedList' = arrived'[1].status.combined_list]_vars

\* The reordering still in force was made with a move button, less than the
\* length of the window ago.
MovedLately ==
    reordered /= None /\ reordered[1].by = "move" /\ now < reordered[1].at + SuppressMs

\* C22 as stated: for SuppressMs after a reordering of the list, by dragging
\* or by a move button, a 'status' frame that carries the list as it was
\* before the reordering and the same current entry leaves combinedList as
\* it is.
C22_EveryReorderHoldsStaleEcho ==
    [][(/\ out'.op = "control-frame" /\ out'.arg = "status"
        /\ reordered /= None /\ now < reordered[1].at + SuppressMs
        /\ arrived'[1].status.combined_list = reordered[1].before
        /\ arrived'[1].status.current = currentId) =>
          combinedList' = combinedList]_vars

\* What holds of the reorderings in place of C22: a move button opens the
\* window (suppressStatusUntil is 1000 ms after the click) and leaves the list
\* as it is, and for those 1000 ms a 'status' or 'progress' frame leaves
\* combinedList unchanged; dragging an item reorders the list at once and
\* leaves suppressStatusUntil as it was.
C22_MoveButtonsOpenTheWindow ==
    [][/\ out'.op = "move" =>
             suppressStatusUntil' = now + 1000 /\ combinedList' = combinedList
       /\ out'.op = "sort" =>
             suppressStatusUntil' = suppressStatusUntil /\ combinedList' /= combinedList
       /\ (/\ out'.op = "control-frame" /\ out'.arg \in {"status", "progress"}
           /\ MovedLately) =>
             combinedList' = combinedList]_vars

\* 500 ms after a move button was clicked a 'status' frame came with another
\* order of the same entries, and the list was left as it was.
C22_Witness ==
    /\ out.op = "control-frame" /\ out.arg = "status"
    /\ reordered /= None /\ reordered[1].by = "move" /\ now = reordered[1].at + 500
    /\ combinedList = reordered[1].before
    /\ combinedList /= arrived[1].status.combined_list
    /\ IdsOf(combinedList) = IdsOf(arrived[1].status.combined_list)

\* C23: once the window that a move button opened has run out (1000 ms after
\* the click, or later), every frame, whatever its command, makes combinedList
\* the combined list of its snapshot.
C23_AfterTheWindowEveryFrameApplies ==
    [][(/\ out'.op = "control-frame"
        /\ suppressStatusUntil > 0 /\ now >= suppressStatusUntil) =>
          combinedList' = arrived'[1].status.combined_list]_vars

\* Exactly 1000 ms after the click a 'status' frame changed the list.
C23_Witness ==
    /\ out.op = "control-frame" /\ out.arg = "status"
    /\ suppressStatusUntil > 0 /\ now = suppressStatusUntil
    /\ reordered /= None /\ reordered[1].by = "move"
    /\ combinedList = arrived[1].status.combined_list
    /\ combinedList /= reordered[1].before

\* ------------------------------------------------------------ the push channel
\* A message that is no frame: a text that is not JSON ("not-json"), or a
\* JSON object without a status member, as {} ("no-status").
GarbledKinds == {"not-json", "no-status"}

\* PlayerWs.onWSMsg with the handler of the player view, for a message that
\* is no frame: JSON.parse throws, or the handler throws when it reads
\* command.status.paused, before its first assignment; the catch logs.
OnGarbled(kind) ==
    /\ out' = Out("malformed", kind, <<>>, "logger.error")
    /\ UNCHANGED <<status, audioVars, retryVars, loudVars, histVars, arrived>>

\* A mutant of MirrorAfterGarbled: the mirror is assigned after the callback.
MirrorAfterGarbled_Kept(old, kind) == old

\* usePlayerStatus, for a message that is no frame: nothing when JSON.parse
\* throws; for a JSON object without status, playerStatus.value =
\* command.status makes the mirror undefined.
MirrorAfterGarbled(old, kind) == IF kind = "not-json" THEN old ELSE None

\* PlayerWs.onWSMsg with the handler of usePlayerStatus and the callback of
\* the playlist control, for a message that is no frame: the callback throws
\* when it reads command.status.combined_list; the catch logs.
ControlOnGarbled(kind) ==
    /\ playerStatus' = MirrorAfterGarbled(playerStatus, kind)
    /\ out' = Out("control-malformed", kind, <<>>, "logger.error")
    /\ UNCHANGED <<combinedList, suppressStatusUntil, now, arrived, reordered>>

Garbled ==
    /\ \E kind \in GarbledKinds : OnGarbled(kind)
    /\ UNCHANGED <<sideVars, viewVars, gainVars, notifyVars, controlState>>

ControlGarbled ==
    /\ \E kind \in GarbledKinds : ControlOnGarbled(kind)
    /\ UNCHANGED <<sideVars, viewVars, gainVars, playbackVars, notifyVars>>

\* The two views, each on its own connection, with frames and with messages
\* that are no frames.
ChannelNext ==
    \/ Frame
    \/ Garbled
    \/ ControlReceives
    \/ ControlGarbled

SpecChannel == Init /\ [][ChannelNext]_vars

\* C24: each frame is handled when it arrives and replaces the mirror as a
\* whole: after a frame to the player view, status is the snapshot of that
\* frame, and after a frame to usePlayerStatus, playerStatus is the snapshot
\* of that frame, no field of an earlier snapshot left; between two frames
\* a mirror does not change.
C24_MirrorIsTheLastSnapshot ==
    [][/\ out'.op = "frame" => status' = Some(arrived'[1].status)
       /\ out'.op = "control-frame" => playerStatus' = Some(arrived'[1].status)
       /\ out'.op \notin {"frame"} => status' = status
       /\ out'.op \notin {"control-frame", "control-malformed"} =>
             playerStatus' = playerStatus]_vars

\* A 'paused' frame with paused = true came to the player view after a frame
\* with paused = false that made the view call play(), and a frame came to
\* usePlayerStatus.
C24_Witness ==
    /\ out.op = "frame" /\ out.arg = "paused"
    /\ status = Some(arrived[1].status) /\ status[1].paused /\ playPending >= 1
    /\ playerStatus /= None

\* The state that C25 names: the mirrors, the audio element, the retry state
\* and the queue of the banner.
channelState ==
    <<status, playerStatus, combinedList, audioVars, retryVars, messages, removerTimeout>>

\* C25 as stated: a message that is no frame is logged and leaves the
\* mirrored snapshot, the audio element, the retry state and the queue of the
\* banner exactly as they were.
C25_GarbledMessageIsDropped ==
    [][out'.op \in {"malformed", "control-malformed"} =>
          out'.log = "logger.error" /\ UNCHANGED channelState]_vars

\* What holds of such messages in place of C25: each is logged; in the player
\* view it changes nothing, and neither does a text that is not JSON in
\* usePlayerStatus; a JSON object without status makes the mirror of
\* usePlayerStatus empty (its list in the playlist control stays); and the
\* frame that comes next is taken as every frame is.
C25_OnlyUnparsableIsDroppedEverywhere ==
    [][/\ out'.op = "malformed" =>
             out'.log = "logger.error" /\ UNCHANGED channelState
       /\ out'.op = "control-malformed" =>
             /\ out'.log = "logger.error"
             /\ UNCHANGED <<status, combinedList, audioVars, retryVars, messages>>
             /\ playerStatus' = IF out'.arg = "not-json" THEN playerStatus ELSE None
       /\ (out.op = "malformed" /\ out'.op = "frame") =>
             status' = Some(arrived'[1].status)
       /\ (out.op = "control-malformed" /\ out'.op = "control-frame") =>
             playerStatus' = Some(arrived'[1].status)]_vars

\* A JSON object without status came to usePlayerStatus after a frame: the
\* mirror is empty, the list of the control is still shown.
C25_Witness ==
    /\ out.op = "control-malformed" /\ out.arg = "no-status"
    /\ playerStatus = None /\ combinedList /= <<>>
    /\ status /= None

\* ------------------------------------------------------------------- teardown
\* onUnmounted of the player view: ws.close(), which takes the handlers off
\* the socket; the template refs become null.  Nothing else is released.
Unmount ==
    /\ mounted
    /\ mounted' = FALSE
    /\ out' = Out("unmount", "none", <<>>, "none")
    /\ UNCHANGED <<status, audioVars, retryVars, loudVars, histVars, notifyVars, reported>>

\* The events of this specification.
TeardownEvents == {Event("searching", Some("A")), Event("query-loading", Some("A"))}

\* While the view is mounted: errors of the element and events for the banner.
TeardownError == mounted /\ MediaError
TeardownEvent ==
    /\ mounted
    /\ \E event \in TeardownEvents : HandleEvent(event)
    /\ UNCHANGED <<sideVars, viewVars, gainVars, controlVars>>

Unmounts == Unmount /\ UNCHANGED <<sideVars, gainVars, controlVars>>

\* The timers of the window are not bound to the view: their callbacks run
\* whether it is mounted or not.
TeardownNext ==
    \/ TeardownError
    \/ TeardownEvent
    \/ Unmounts
    \/ RetryFires
    \/ Crossfaded
    \/ Evicts

SpecTeardown == Init /\ [][TeardownNext]_vars

\* C26 as stated: once the view is unmounted no timer of it is pending (so
\* none fires afterwards): no retry timer and no eviction timer.
C26_NoTimerSurvivesUnmount ==
    ~mounted => timers = {} /\ removers = {}

\* ---------------------------------------------- claims on the retry timer
\* C27 as stated: when the url of the track changes, a pending retry timer is
\* cancelled: none is pending once the change has been processed.
C27_RetryTimerCanceledOnUrlChange ==
    [][musicUrl' /= musicUrl => timers' = {}]_vars

C30_RetryPlaysIffNotPaused ==
    [][out'.op = "retry-timer" =>
          /\ (StatusPaused = Some(FALSE) => playPending' = playPending + 1)
          /\ (StatusPaused /= Some(FALSE) =>
                 playPending' = playPending /\ audioPaused' = audioPaused)]_vars

\* The timer fired with the player paused after an error: no play() call.
C30_Witness ==
    /\ out.op = "retry-timer" /\ StatusPaused = Some(TRUE)
    /\ errs >= 1 /\ playPending = 0 /\ retryCount = InitialRetryCount - 1

\* ------------------------------------------------------- position reporting
\* status.progress; None is undefined (no frame yet).
MirroredProgress == IF status = None THEN None ELSE Some(status[1].progress)

\* A mutant of ShouldReport: every timeupdate past second 0 is reported.
ShouldReport_Always(progress, mirrored) == progress > 0

\* handleProgressUpdate: progress > 0 && progress !== status.progress.
ShouldReport(progress, mirrored) == progress > 0 /\ mirrored /= Some(progress)

\* handleProgressUpdate, for a timeupdate event of the playing element; since
\* the event before, the whole second of currentTime has advanced by one or
\* has not.
HandleProgressUpdate(advance) ==
    /\ ~audioPaused
    /\ audioTime + advance <= MaxTime
    /\ audioTime' = audioTime + advance
    /\ LET progress == audioTime'
           sends == ShouldReport(progress, MirroredProgress)
       IN  /\ out' = Out("timeupdate", "none",
                         IF sends THEN <<Cmd("progress", Some(progress))>> ELSE <<>>, "none")
           /\ reported' = IF sends THEN Some(progress) ELSE reported
    /\ UNCHANGED <<status, audioPaused, audioVolume, playPending, retryVars, loudVars,
                   histVars, arrived, mounted>>

\* The frames of this specification: song "a" is current, paused or not, at
\* position 0.
ProgressSnapshots ==
    {[paused |-> p, progress |-> 0, current |-> Some(Entry(1, SongA)),
      playlist |-> <<Entry(1, SongA)>>, cached_songs |-> <<>>,
      target_db |-> DefaultTargetDb] : p \in BOOLEAN}

ProgressFrame ==
    /\ \E snap \in ProgressSnapshots : OnCommand("none", 0, snap)
    /\ UNCHANGED <<sideVars, viewVars, gainVars, notifyVars, controlState>>

\* The echo of the last report: a 'progress' frame whose snapshot is the one
\* mirrored, with the reported position as its progress.
ProgressEcho ==
    /\ reported /= None /\ status /= None
    /\ OnCommand("progress", reported[1], [status[1] EXCEPT !.progress = reported[1]])
    /\ UNCHANGED <<sideVars, viewVars, gainVars, notifyVars, controlState>>

TimeUpdates ==
    /\ \E advance \in {0, 1} : HandleProgressUpdate(advance)
    /\ UNCHANGED <<sideVars, gainVars, notifyVars, controlState>>

ProgressNext ==
    \/ ProgressFrame
    \/ ProgressEcho
    \/ TimeUpdates
    \/ Resolved
    \/ Autoplays

SpecProgress == Init /\ [][ProgressNext]_vars

\* C28 as stated: a report never carries the whole second that the report
\* before it carried, also when timeupdate events come before the echo of
\* that report.
C28_NoSecondReportedTwice ==
    [][(out'.op = "timeupdate" /\ out'.sent /= <<>>) =>
          reported /= out'.sent[1].value]_vars

\* What holds of the reports in place of C28: a timeupdate event sends a
\* report, with the whole second of the position, exactly when that second is
\* past 0 and differs from the progress of the mirrored snapshot; what was
\* reported before plays no part.
C28_ReportIffDiffersFromMirror ==
    [][out'.op = "timeupdate" =>
          out'.sent = IF audioTime' > 0 /\ (status = None \/ status[1].progress /= audioTime')
                      THEN <<Cmd("progress", Some(audioTime'))>>
                      ELSE <<>>]_vars

\* After the echo of the report of second 2, a timeupdate within that second
\* sent nothing.
C28_Witness ==
    /\ out.op = "timeupdate" /\ out.sent = <<>>
    /\ audioTime = 2 /\ reported = Some(2) /\ MirroredProgress = Some(2)

\* ---------------------------------------------------- the text utilities
\* A string is the sequence of its UTF-16 code units, each a number.
MaxChars == 4
MaxColumns == 6
MaxSeconds == 7325

Ellipsis == 8230
Colon == 58
Zero == 48

HighSurrogate(u) == u \in 55296 .. 56319
LowSurrogate(u) == u \in 56320 .. 57343

\* The character class of fullWidthRegex. The regular expression has no u
\* flag: it matches when some code unit of the tested string is in the class.
InFullWidthClass(u) ==
    \/ u \in 12288 .. 40959
    \/ u \in 44032 .. 55295
    \/ u \in 63744 .. 64255
    \/ u \in 65281 .. 65376

fullWidthRegex_NoHangul(i) == \E k \in 1 .. Len(i) : i[k] \in 12288 .. 40959
fullWidthRegex(i) == \E k \in 1 .. Len(i) : InFullWidthClass(i[k])

\* [...str]: the string iterator yields code points, a surrogate pair as one
\* string of two code units, a lone surrogate by itself.
RECURSIVE Spread(_)
Spread(str) ==
    IF str = <<>> THEN <<>>
    ELSE IF Len(str) >= 2 /\ HighSurrogate(str[1]) /\ LowSurrogate(str[2])
         THEN <<SubSeq(str, 1, 2)>> \o Spread(SubSeq(str, 3, Len(str)))
         ELSE <<SubSeq(str, 1, 1)>> \o Spread(Tail(str))

CodeWidth(str) ==
    LET points == Spread(str)
    IN  [i \in 1 .. Len(points) |-> IF fullWidthRegex(points[i]) THEN 2 ELSE 1]

RECURSIVE SumOf(_)
SumOf(widths) == IF widths = <<>> THEN 0 ELSE widths[1] + SumOf(Tail(widths))

cjkWidth(str) == SumOf(CodeWidth(str))

\* White space and line terminators of ECMAScript, what trimEnd strips.
IsWhiteSpace(u) ==
    \/ u \in 9 .. 13
    \/ u \in {32, 160, 5760, 8232, 8233, 8239, 8287, 12288, 65279}
    \/ u \in 8192 .. 8202

RECURSIVE TrimEnd(_)
TrimEnd(str) ==
    IF str /= <<>> /\ IsWhiteSpace(str[Len(str)])
    THEN TrimEnd(SubSeq(str, 1, Len(str) - 1))
    ELSE str

\* str.slice(0, end) for end >= 0: the first end code units.
Slice(str, end) == SubSeq(str, 1, IF end < Len(str) THEN end ELSE Len(str))

\* The test of the loop of cjkTruncate on the running width.
Overflows_NoRoom(width, max) == width > max
Overflows(width, max) == width > max - 2

\* The loop of cjkTruncate from index i (counted from 0) with the width of
\* the elements before it; past the last element the string is returned.
RECURSIVE TruncateFrom(_, _, _, _, _)
TruncateFrom(str, codeWidth, max, i, width) ==
    IF i >= Len(codeWidth) THEN str
    ELSE IF Overflows(width + codeWidth[i + 1], max)
         THEN TrimEnd(Slice(str, i)) \o <<Ellipsis>>
         ELSE TruncateFrom(str, codeWidth, max, i + 1, width + codeWidth[i + 1])

cjkTruncate(str, max) ==
    LET codeWidth == CodeWidth(str)
        totalWidth == SumOf(codeWidth)
    IN  IF totalWidth <= max THEN str
        ELSE TruncateFrom(str, codeWidth, max, 0, 0)

\* Number.prototype.toString of a whole number that is not negative.
RECURSIVE NumberToString(_)
NumberToString(n) ==
    IF n < 10 THEN <<Zero + n>> ELSE NumberToString(n \div 10) \o <<Zero + (n % 10)>>

\* padStart(length, fill) with a fill of one code unit.
\* A mutant of PadStart: nothing is padded.
PadStart_None(str, length, fill) == str

RECURSIVE PadStart(_, _, _)
PadStart(str, length, fill) ==
    IF Len(str) >= length THEN str ELSE PadStart(<<fill>> \o str, length, fill)

formatTime(seconds) ==
    LET hours == seconds \div 3600
        mins == (seconds % 3600) \div 60
        secs == seconds % 60
    IN  IF hours > 0
        THEN NumberToString(hours) \o <<Colon>> \o PadStart(NumberToString(mins), 2, Zero)
                 \o <<Colon>> \o PadStart(NumberToString(secs), 2, Zero)
        ELSE NumberToString(mins) \o <<Colon>> \o PadStart(NumberToString(secs), 2, Zero)

\* The characters the strings under study are made of: a Latin letter, the
\* space, a CJK ideograph, a Hangul syllable, a hiragana, the full-width
\* exclamation mark, the ideographic space U+3000, and an emoji outside the
\* basic plane (a surrogate pair).
Characters ==
    {<<97>>, <<32>>, <<20320>>, <<50504>>, <<12371>>, <<65281>>, <<12288>>,
     <<55357, 56832>>}
TruncateCharacters == {<<97>>, <<32>>, <<20320>>, <<12288>>, <<55357, 56832>>}

RECURSIVE Flatten(_)
Flatten(chars) == IF chars = <<>> THEN <<>> ELSE chars[1] \o Flatten(Tail(chars))

StringsOf(alphabet) ==
    {Flatten(chars) : chars \in UNION {[1 .. n -> alphabet] : n \in 0 .. MaxChars}}

TextCalls ==
    {[fn |-> "cjkWidth", str |-> s] : s \in StringsOf(Characters)}
    \cup {[fn |-> "cjkTruncate", str |-> s, max |-> m] :
             s \in StringsOf(TruncateCharacters), m \in 1 .. MaxColumns}
    \cup {[fn |-> "formatTime", seconds |-> n] : n \in 0 .. MaxSeconds}

TextInit ==
    /\ PlayerInit /\ GainIdle /\ SocketInit /\ AddIdle
    /\ textIn \in {Some(c) : c \in TextCalls}
    /\ textOut = None

TextOthers ==
    UNCHANGED <<textIn, socketVars, addVars, gainVars, playerVars, notifyVars, controlVars,
                viewVars>>

Called(fn) == textIn /= None /\ textIn[1].fn = fn /\ textOut = None

CallsWidth ==
    /\ Called("cjkWidth")
    /\ textOut' = Some(cjkWidth(textIn[1].str))
    /\ TextOthers

CallsTruncate ==
    /\ Called("cjkTruncate")
    /\ textOut' = Some(cjkTruncate(textIn[1].str, textIn[1].max))
    /\ TextOthers

CallsFormatTime ==
    /\ Called("formatTime")
    /\ textOut' = Some(formatTime(textIn[1].seconds))
    /\ TextOthers

TextNext == CallsWidth \/ CallsTruncate \/ CallsFormatTime

SpecText == TextInit /\ [][TextNext]_vars

\* The prefixes of a string are its leading code units; the longest one whose
\* width is at most room (the empty one when room is below 0).
LongestPrefix(str, room) ==
    LET fits == {k \in 0 .. Len(str) : cjkWidth(SubSeq(str, 1, k)) <= room}
    IN  IF fits = {} THEN <<>>
        ELSE SubSeq(str, 1, CHOOSE k \in fits : \A j \in fits : j <= k)

Truncated == textIn /= None /\ textIn[1].fn = "cjkTruncate" /\ textOut /= None

\* C31 as stated: for every string s and every max >= 1, cjkTruncate(s, max)
\* is s when cjkWidth(s) <= max; otherwise it is the longest prefix of s of
\* width at most max - 2, with trailing white space trimmed, followed by the
\* ellipsis; and the width of the result never exceeds max.
C31_TruncateKeepsLongestFittingPrefix ==
    Truncated =>
        LET s == textIn[1].str
            max == textIn[1].max
            result == textOut[1]
        IN  /\ cjkWidth(s) <= max => result = s
            /\ cjkWidth(s) > max =>
                   result = TrimEnd(LongestPrefix(s, max - 2)) \o <<Ellipsis>>
            /\ cjkWidth(result) <= max

\* What holds of cjkTruncate in place of C31: the cut is made after as many
\* code units as the longest fitting prefix has characters, which is that
\* prefix exactly when no surrogate pair lies in it; the width of the result
\* never exceeds max, whatever the string.
C31_TruncateCutsUnitsByCharacterCount ==
    Truncated =>
        LET s == textIn[1].str
            max == textIn[1].max
            result == textOut[1]
            prefix == LongestPrefix(s, max - 2)
            count == Len(Spread(prefix))
        IN  /\ cjkWidth(s) <= max => result = s
            /\ cjkWidth(s) > max =>
                   /\ result = TrimEnd(SubSeq(s, 1, count)) \o <<Ellipsis>>
                   /\ (\A k \in 1 .. Len(prefix) : ~HighSurrogate(prefix[k]))
                          => result = TrimEnd(prefix) \o <<Ellipsis>>
            /\ cjkWidth(result) <= max

\* 'a 你你' cut to 4 columns came out as 'a…': the prefix 'a ' fits in 2
\* columns and lost its trailing space.
C31_Witness ==
    /\ textIn = Some([fn |-> "cjkTruncate", str |-> <<97, 32, 20320, 20320>>, max |-> 4])
    /\ textOut = Some(<<97, Ellipsis>>)

\* The characters of a well-formed string: its code units, a surrogate pair
\* counted once.
CharacterCount(str) ==
    Len(str) - Cardinality({k \in 2 .. Len(str) :
                               LowSurrogate(str[k]) /\ HighSurrogate(str[k - 1])})

\* The full-width characters by their blocks: the ideographic space, kana,
\* CJK ideographs, Hangul syllables, the full-width forms.
FullWidthCharacter(u) ==
    \/ u = 12288
    \/ u \in 12352 .. 12543
    \/ u \in 13312 .. 40959 \/ u \in 63744 .. 64255
    \/ u \in 44032 .. 55203
    \/ u \in 65281 .. 65376

FullWidthCount(str) == Cardinality({k \in 1 .. Len(str) : FullWidthCharacter(str[k])})

\* A cut of a string that does not fall inside a surrogate pair.
CharacterBoundary(str, k) ==
    ~(k >= 1 /\ k < Len(str) /\ HighSurrogate(str[k]) /\ LowSurrogate(str[k + 1]))

RECURSIVE Fields(_)
Fields(str) ==
    IF \A k \in 1 .. Len(str) : str[k] /= Colon THEN <<str>>
    ELSE LET at == CHOOSE k \in 1 .. Len(str) :
                       str[k] = Colon /\ \A j \in 1 .. k - 1 : str[j] /= Colon
         IN  <<SubSeq(str, 1, at - 1)>> \o Fields(SubSeq(str, at + 1, Len(str)))

IsNumeral(field) == field /= <<>> /\ \A k \in 1 .. Len(field) : field[k] \in Zero .. Zero + 9
Unpadded(field) == Len(field) = 1 \/ field[1] /= Zero

RECURSIVE ValueOf(_)
ValueOf(field) ==
    IF field = <<>> THEN 0
    ELSE 10 * ValueOf(SubSeq(field, 1, Len(field) - 1)) + (field[Len(field)] - Zero)

\* C33: for every whole number of seconds s >= 0, formatTime(s) is 'M:SS'
\* (minutes unpadded, seconds two digits) when s < 3600 and 'H:MM:SS' (minutes
\* and seconds two digits) when s >= 3600, with minutes and seconds below 60
\* and H*3600 + M*60 + S = s.
C33_TimeReadsBackAsSeconds ==
    (textIn /= None /\ textIn[1].fn = "formatTime" /\ textOut /= None) =>
        LET s == textIn[1].seconds
            f == Fields(textOut[1])
            n == Len(f)
        IN  /\ n = (IF s < 3600 THEN 2 ELSE 3)
            /\ \A k \in 1 .. n : IsNumeral(f[k])
            /\ Unpadded(f[1])
            /\ \A k \in 2 .. n : Len(f[k]) = 2 /\ ValueOf(f[k]) < 60
            /\ ValueOf(f[1]) < 60 \/ n = 3
            /\ s = IF n = 2 THEN ValueOf(f[1]) * 60 + ValueOf(f[2])
                   ELSE ValueOf(f[1]) * 3600 + ValueOf(f[2]) * 60 + ValueOf(f[3])

\* 3665 seconds came out as '1:01:05'.
C33_Witness ==
    /\ textIn = Some([fn |-> "formatTime", seconds |-> 3665])
    /\ textOut = Some(<<49, 58, 48, 49, 58, 48, 53>>)

\* ------------------------------------------- claims on interleaved queries
SearchingB == Message(Event("searching", Some("B")), Some(3000))

\* An event whose replace calls found a message behind the head was handled.
SplicedByEvent == out'.op = "event" /\ scenario' = "spliced"

\* C34 as stated: when the message matched by a dedup rule is found at a
\* queue index greater than 0, it is removed at once without a replace
\* transition: the head and the pending eviction timer are left unchanged and
\* the new message is appended at the tail.
C34_FoundBehindHeadNeverReplaces ==
    [][SplicedByEvent =>
          /\ Len(messages') <= Len(messages)
          /\ messages'[1] = messages[1]
          /\ fades' = fades
          /\ removers' = removers /\ removerTimeout' = removerTimeout
          /\ messages'[Len(messages')].type = out'.arg]_vars

\* What holds in place of C34: the message found behind the head is removed
\* at once and the head stays; a query-success (or query-fail) whose
\* searching message was behind the head still takes the replace transition
\* when the query-loading message of its query is the head, and then the
\* timer is cleared; otherwise the new message is appended at the tail, the
\* timer left as it is when one is pending and set when none is.
C34_FoundBehindHeadRemovedAtOnce ==
    [][SplicedByEvent =>
          LET replaced == fades' /= fades
              new == IF replaced THEN messages'[2] ELSE messages'[Len(messages')]
          IN  /\ Len(messages') <= Len(messages)
              /\ messages'[1] = messages[1]
              /\ new.type = out'.arg
              /\ replaced <=> (/\ new.type \in {"query-success", "query-fail"}
                               /\ messages[1].type = "query-loading"
                               /\ messages[1].query = new.query)
              /\ replaced => (fades' = Append(fades, new) /\ removerTimeout' = None)
              /\ (~replaced /\ removerTimeout /= None) =>
                     (removers' = removers /\ removerTimeout' = removerTimeout)
              /\ (~replaced /\ removerTimeout = None) =>
                     /\ removerTimeout' /= None
                     /\ \E r \in removers' \ removers :
                            r.id = removerTimeout'[1] /\ r.delay = TimeoutOf(new)]_vars

\* The searching message of A stood behind that of B when query-loading of A
\* came: it went at once, the head and its timer stayed, the new message is
\* the tail.
C34_Witness ==
    /\ out.op = "event" /\ out.arg = "query-loading" /\ scenario = "spliced"
    /\ messages = <<SearchingB, LoadingA>>
    /\ fades = <<>>
    /\ \E r \in removers : removerTimeout = Some(r.id) /\ r.delay = SearchingTimeout

\* ------------------------------------------------ claims on the volume race
\* The gains the active track may have under the current target: from its
\* cached figure, or from the fallback figure when a decode of it failed.
ActiveGains ==
    {VolumeLevel(dbFSCache[u], targetDbFS) : u \in {musicUrl} \cap DOMAIN dbFSCache}
        \cup {VolumeLevel(FallbackDbFS, targetDbFS) : u \in {musicUrl} \cap failed}

\* C35 as stated: once all in-flight updateVolume computations have settled,
\* the volume of the audio element is the gain of the active track under the
\* current target: a slow computation started for a previous track never
\* overwrites the volume already set for the current track.
C35_SettledVolumeIsOfActiveTrack ==
    (inflight = <<>> /\ musicUrl /= EmptyUrl) => audioVolume \in ActiveGains

\* --------------------------------------------- claims on the queue draining
\* The timer kept in removerTimeout is pending.
RemoverPending == removerTimeout /= None /\ \E r \in removers : r.id = removerTimeout[1]

\* C36: from every reachable state with a non-empty queue, either an eviction
\* timer is pending or a replace transition is in progress that will schedule
\* one; and if no further events arrive, every message is eventually evicted
\* and the queue becomes empty.
C36_QueueDrainsWithoutEvents ==
    /\ [](messages /= <<>> => (RemoverPending \/ fades /= <<>>))
    /\ ([]<><<ShowEvent>>_vars \/ <>[](messages = <<>>))

\* The last message of the queue was evicted by its timer, and nothing is
\* left pending.
C36_Witness ==
    /\ out.op = "evict" /\ out.arg /= "none"
    /\ messages = <<>> /\ fades = <<>> /\ removers = {} /\ removerTimeout = None

\* ------------------------------------------------- the PlayerWs connection
\* PlayerWs and FallbackWs share this code word for word.
MaxSockets == 4
MaxDelivered == 3

SocketOthers ==
    UNCHANGED <<textVars, addVars, playbackVars, gainVars, notifyVars, controlVars, viewVars>>

\* The close event of socket i: the connection was lost, refused, or closed
\* from either end.  ws.onclose = () => setTimeout(this.createWs.bind(this),
\* 3000), when the handler is still set.
SocketCloses(i) ==
    /\ i \in 1 .. Len(wsSockets) /\ wsSockets[i].state /= "closed"
    /\ wsSockets' = [wsSockets EXCEPT ![i].state = "closed"]
    /\ wsTimers' = IF wsSockets[i].onclose THEN wsTimers + 1 ELSE wsTimers
    /\ out' = Out("ws-close", IF wsSockets[i].onclose THEN "reconnect" ELSE "none",
                  <<>>, "none")
    /\ UNCHANGED <<wsClosed, wsCurrent, wsDelivered>>

\* The reconnect timer fires: createWs.
ReconnectFires ==
    /\ wsTimers > 0
    /\ ~wsClosed => Len(wsSockets) < MaxSockets
    /\ LET made == CreateWs(wsClosed, wsSockets, wsCurrent)
       IN  /\ wsSockets' = made.sockets
           /\ wsCurrent' = made.ws
           /\ out' = Out("ws-reconnect",
                         IF Len(made.sockets) > Len(wsSockets) THEN "created" ELSE "closed",
                         <<>>, "none")
    /\ wsTimers' = wsTimers - 1
    /\ UNCHANGED <<wsClosed, wsDelivered>>

\* A message event on socket i, which is not closed: its onmessage handler,
\* when set, is onWSMsg, which hands the frame to the registered handler.
SocketMessage(i) ==
    /\ i \in 1 .. Len(wsSockets) /\ wsSockets[i].state /= "closed"
    /\ wsSockets[i].onmessage => wsDelivered < MaxDelivered
    /\ wsDelivered' = IF wsSockets[i].onmessage THEN wsDelivered + 1 ELSE wsDelivered
    /\ out' = Out("ws-message", IF wsSockets[i].onmessage THEN "delivered" ELSE "dropped",
                  <<>>, "none")
    /\ UNCHANGED <<wsClosed, wsSockets, wsCurrent, wsTimers>>

\* close(), its if block: the handlers are taken off this.ws and ws.close()
\* starts the closing handshake of a socket that is not closed yet.
DetachSocket(socket) ==
    [socket EXCEPT !.onclose = FALSE, !.onmessage = FALSE,
                   !.state = IF @ = "open" THEN "closing" ELSE @]

\* PlayerWs.close(), called once, from onUnmounted.
CloseWs ==
    /\ ~wsClosed
    /\ wsClosed' = TRUE
    /\ wsSockets' = [wsSockets EXCEPT ![wsCurrent] = DetachSocket(@)]
    /\ out' = Out("ws-closed", IF wsTimers > 0 THEN "timer-pending" ELSE "none",
                  <<>>, "none")
    /\ UNCHANGED <<wsCurrent, wsTimers, wsDelivered>>

Drops == (\E i \in 1 .. Len(wsSockets) : SocketCloses(i)) /\ SocketOthers
Reconnects == ReconnectFires /\ SocketOthers
Receives == (\E i \in 1 .. Len(wsSockets) : SocketMessage(i)) /\ SocketOthers
Closes == CloseWs /\ SocketOthers

SocketNext == Drops \/ Reconnects \/ Receives \/ Closes

SpecSocket == Init /\ [][SocketNext]_vars

\* C37: after PlayerWs.close() no new WebSocket is ever created and the
\* registered handler receives no further frame, also when a reconnect timer
\* started by an earlier socket close is still pending at the time of close().
C37_NothingAfterClose ==
    [][wsClosed =>
          /\ wsClosed'
          /\ wsSockets' = [i \in 1 .. Len(wsSockets) |->
                              [wsSockets[i] EXCEPT !.state = wsSockets'[i].state]]
          /\ wsDelivered' = wsDelivered]_vars

\* close() came while the reconnect timer of a lost socket was pending; the
\* timer has fired since and no socket was made.
C37_Witness ==
    /\ wsClosed /\ out.op = "ws-reconnect" /\ out.arg = "closed"
    /\ wsTimers = 0
    /\ \A i \in 1 .. Len(wsSockets) : wsSockets[i].state = "closed"

\* ------------------------------------------- claims on the one retry timer
\* C38: at every moment at most one retry backoff timer is pending: a new
\* playback error cancels the previously scheduled retry before scheduling
\* its own, so one backoff expiry causes at most one decrement and at most
\* one play attempt.
C38_AtMostOneRetryTimer ==
    [][/\ Cardinality(timers') <= 1
       /\ timers' /= {} => (retryTimeout' /= None /\ timers' = {retryTimeout'[1]})
       /\ out'.op = "retry-timer" =>
             /\ Cardinality(timers) = 1
             /\ retryCount' = retryCount - 1
             /\ playPending' \in {playPending, playPending + 1}
             /\ timers' = {}]_vars

\* A real error was handled while the retry of an earlier error was pending:
\* two errors, no decrement yet, one timer.
C38_Witness ==
    /\ out.op \in ErrorOps /\ out.arg = "real" /\ errs = 2 /\ ~clean
    /\ retryCount = InitialRetryCount /\ countAtChange = InitialRetryCount
    /\ Cardinality(timers) = 1 /\ retryTimeout = Some(1)

\* ------------------------------------------- claims on the removal button
\* C39: issuing a remove (cancel) in the playlist control ends any active
\* suppression window: the next frame is applied to the local combined list
\* even when it arrives less than 1000 ms after an earlier move-to-top or
\* move-to-end, whatever its command.
C39_RemoveEndsTheWindow ==
    [][/\ out'.op = "remove" => (suppressStatusUntil' = 0 /\ ~WindowActive')
       /\ (/\ out'.op = "control-frame"
           /\ reordered /= None /\ reordered[1].by = "removed") =>
             combinedList' = arrived'[1].status.combined_list]_vars

\* A move button was clicked, then a remove button; 500 ms after the move a
\* 'status' frame came with another order than the list had at the move, and
\* the list took it.
C39_Witness ==
    /\ out.op = "control-frame" /\ out.arg = "status"
    /\ reordered /= None /\ reordered[1].by = "removed" /\ now = reordered[1].at + 500
    /\ suppressStatusUntil = 0
    /\ combinedList = arrived[1].status.combined_list
    /\ combinedList /= reordered[1].before
    /\ IdsOf(combinedList) = IdsOf(reordered[1].before)

\* ---------------------------------------------------- the manual add button
\* A song id is the id of a video or track, or that of a page of a video:
\* <<"BV1">> is 'BV1', <<"BV1", 2>> is 'BV1_p2'.
MaxAdds == 3

AddSongs ==
    {<<"Bilibili", <<"BV1">>>>, <<"Bilibili", <<"BV1", 1>>>>, <<"Bilibili", <<"BV1", 2>>>>,
     <<"NeteaseMusic", <<"n1">>>>}

\* `${source}-${song_id}`
AddKey(source, song_id) == <<source, song_id>>

\* song_id.split('_p')[0]
SplitPage(song_id) == <<song_id[1]>>

\* A mutant of AddKeys: the id of the video is not touched.
AddKeys_OwnOnly(source, song_id) == {AddKey(source, song_id)}

\* handleManualAdd: the keys it sets before the request and deletes after it.
AddKeys(source, song_id) ==
    IF source = "Bilibili"
    THEN {AddKey(source, song_id), AddKey(source, SplitPage(song_id))}
    ELSE {AddKey(source, song_id)}

\* isAdding(source, song_id); undefined is FALSE.
isAdding(source, song_id) == AddKey(source, song_id) \in addLoading

AddOthers ==
    UNCHANGED <<textVars, socketVars, playbackVars, gainVars, notifyVars, controlVars, viewVars>>

\* handleManualAdd up to its await.
HandleManualAdd(source, song_id) ==
    /\ Len(addRequests) < MaxAdds
    /\ addLoading' = addLoading \cup AddKeys(source, song_id)
    /\ addRequests' = Append(addRequests, [source |-> source, song_id |-> song_id])
    /\ out' = Out("add", source, <<>>, "none")

\* handleManualAdd after its await: the request returned a result without or
\* with an error, or threw; the finally block deletes the keys.
AddSettles(i, outcome) ==
    /\ i \in 1 .. Len(addRequests)
    /\ addLoading' = addLoading \ AddKeys(addRequests[i].source, addRequests[i].song_id)
    /\ addRequests' = RemoveAt(addRequests, i)
    /\ out' = Out("add-settled", outcome, <<>>,
                  IF outcome = "threw" THEN "logger.error" ELSE "none")

Adds == (\E song \in AddSongs : HandleManualAdd(song[1], song[2])) /\ AddOthers
AddSucceeds == (\E i \in 1 .. Len(addRequests) : AddSettles(i, "success")) /\ AddOthers
AddReturnsError == (\E i \in 1 .. Len(addRequests) : AddSettles(i, "error")) /\ AddOthers
AddThrows == (\E i \in 1 .. Len(addRequests) : AddSettles(i, "threw")) /\ AddOthers

AddNext == Adds \/ AddSucceeds \/ AddReturnsError \/ AddThrows

SpecAdd == Init /\ [][AddNext]_vars

\* The keys that the requests in flight are about: their own, and for
\* Bilibili that of the video of a page.
KeysInFlight ==
    UNION {{AddKey(addRequests[i].source, addRequests[i].song_id)}
               \cup (IF addRequests[i].source = "Bilibili"
                     THEN {AddKey("Bilibili", <<addRequests[i].song_id[1]>>)}
                     ELSE {}) : i \in 1 .. Len(addRequests)}

\* C40 as stated: isAdding(source, id) is true exactly while at least one
\* handleManualAdd request for that key is in flight (for Bilibili also the
\* id of the video while any of its pages is being added), and false once all
\* such requests have settled, however they ended; also when several adds run
\* concurrently.
C40_AddingExactlyWhileInFlight ==
    \A song \in AddSongs :
        isAdding(song[1], song[2]) <=> AddKey(song[1], song[2]) \in KeysInFlight

\* What holds of isAdding in place of C40: it is true right after the call
\* for the key and for the video of a page, it is never true for a key that no
\* request in flight is about, and it is false for every key once every
\* request has settled, however it ended.
C40_AddingOnlyWhileInFlight ==
    /\ [](/\ \A song \in AddSongs :
                isAdding(song[1], song[2]) => AddKey(song[1], song[2]) \in KeysInFlight
          /\ addRequests = <<>> => addLoading = {})
    /\ [][out'.op = "add" =>
              LET r == addRequests'[Len(addRequests')]
              IN  /\ AddKey(r.source, r.song_id) \in addLoading'
                  /\ r.source = "Bilibili" =>
                         AddKey("Bilibili", <<r.song_id[1]>>) \in addLoading']_vars

\* Two pages of one video were being added; the request of one threw, the
\* other is still in flight, and neither the page that settled nor the one in
\* flight is shown as stale.
C40_Witness ==
    /\ out.op = "add-settled" /\ out.arg = "threw"
    /\ addRequests = <<[source |-> "Bilibili", song_id |-> <<"BV1", 2>>]>>
    /\ ~isAdding("Bilibili", <<"BV1", 1>>)
    /\ isAdding("Bilibili", <<"BV1", 2>>)
====
